---- MODULE Spec2Model ----
(***************************************************************************)
(* The dependency-aware style-guide processor of context42:                *)
(* createStyleGuideProcessor (run, reset) and runTasks, with the p-queue   *)
(* it schedules on, the file system calls it makes (mkdir, rename,         *)
(* unlink), the database it saves to and the global cleanup registry.      *)
(*                                                                         *)
(* One action is one synchronous block of JavaScript: the code between two *)
(* suspension points (await).  Strings are sequences of one-character      *)
(* strings, so that startsWith and the "/" separator are what they are in  *)
(* the code.                                                               *)
(***************************************************************************)
EXTENDS Integers, Sequences, FiniteSets, TLC

VARIABLES
  \* ---- the processor's closure (createStyleGuideProcessor)
  concurrency,        \* options.concurrency
  workers,            \* workers[id]: status, language, directory, error, progress
  total,              \* number | UndefinedNumber
  completed,          \* number | UndefinedNumber
  queuedTasks,        \* what the last onQueueUpdate published
  abortController,    \* "undefined" | "live"
  \* ---- one run()
  phase,              \* position of run(): none, mkdir, running, promoting,
                      \* cleaning, resolved, rejected
  groups,             \* Array.from(fileGroups.values()).flat()
  createdStyleGuides, \* Map language -> paths, in registration order
  createdFiles,       \* Set of paths still to clean up
  results,            \* the keys of the Map run() returns
  workerQueue,        \* free worker ids
  \* ---- runTasks
  edges,              \* [child, parent] pairs, in the order they are pushed
  inDeg,              \* pending dependency count per task id
  readyQueue,         \* ready but not started
  completedTasks,     \* Set of finished task ids
  pqQueue,            \* p-queue: jobs added and not yet started
  pqPending,          \* p-queue: jobs started and not yet finished
  \* ---- the task of each unit
  pc,                 \* waiting, ready, polling, acquired, generating,
                      \* settled, finishing, done
  assigned,           \* assignedWorkerId (0: none)
  signal,             \* the AbortSignal the Generator got: none, live, aborted
  childGuides,        \* the keys of childStyleGuides passed ({}: undefined)
  outcome,            \* none, success, error
  \* ---- the environment
  renamePending,      \* languages whose rename() has not settled
  unlinkPending,      \* paths whose unlink() has not settled
  unlinkCalled,       \* paths unlink() was called with
  unlinkFailed,       \* paths whose unlink() rejected
  renameFailed,       \* languages whose rename() rejected
  fs,                 \* artifact files that exist in the units' directories
  outputFiles,        \* <outputDir>/<language>.md |-> the path it was moved from
  db,                 \* style_guides rows: <<run_id, language, directory>>
  handlers,           \* cleanupRegistry.handlers
  \* ---- the cleanup registry and the database, used on their own
  isShuttingDown,     \* cleanupRegistry.isShuttingDown
  invoked,            \* how many times cleanup() called each handler since reset()
  cleanupCalls,       \* how many times cleanup() was called since reset()
  lastQuery,          \* the last getChildStyleGuides call: {} or {[arguments, rows]}
  handlerResult,      \* what each handler did when cleanup() called it: none, returned,
                      \* threw, or its promise: pending, fulfilled, rejected
  cleanupPromises,    \* the promise each cleanup() call since reset() returned
  unregistered,       \* handlers whose unregister function was called since they
                      \* were registered
  handlerUnlinks,     \* the unlinks of the file-cleanup handler's call, per path:
                      \* pending, removed, missing (ENOENT, ignored), logged
  handlerPromise,     \* the promise the file-cleanup handler returned: none,
                      \* pending, fulfilled, rejected
  fileGroups,         \* the Map the last call of toposort was given
  sortedGroups,       \* the Map the last call of toposort returned
  \* ---- history of the run
  cancelled,          \* reset() was called during this run
  trackedAtReset,     \* createdFiles when reset() was called during this run
  readyOrder,         \* the task ids in the order enqueue() was called with them
  startOrder,         \* the task ids in the order their jobs were started
  inFlightAtReset,    \* the task ids in flight when reset() was called during this run
  \* ---- what the last step passed to the callbacks
  workerUpdates,      \* onWorkerUpdate(worker), in call order
  queueUpdates,       \* onQueueUpdate(queuedTasks), in call order
  progressUpdates     \* onProgress(completed), in call order

procVars  == <<concurrency, workers, total, completed, queuedTasks, abortController>>
runVars   == <<phase, groups, createdStyleGuides, createdFiles, results, workerQueue>>
schedVars == <<edges, inDeg, readyQueue, completedTasks, pqQueue, pqPending>>
taskVars  == <<pc, assigned, signal, childGuides, outcome>>
envVars   == <<renamePending, unlinkPending, unlinkCalled, unlinkFailed, renameFailed,
               fs, outputFiles, db, handlers>>
cbVars    == <<workerUpdates, queueUpdates, progressUpdates>>
libVars   == <<isShuttingDown, invoked, cleanupCalls, lastQuery, handlerResult,
               cleanupPromises, unregistered, handlerUnlinks, handlerPromise,
               fileGroups, sortedGroups>>
histVars  == <<cancelled, trackedAtReset, readyOrder, startOrder, inFlightAtReset>>
vars      == <<procVars, runVars, schedVars, taskVars, envVars, cbVars, libVars, histVars>>

----------------------------------------------------------------------------
(* Bounds of the model *)

MaxConcurrency == 2
MaxUnits == 2
MaxRows == 2
MaxCleanupCalls == 3
MaxSchedUnits == 3
MaxSortGroups == 3

\* undefined, for a string, a path and a number
Undefined == "undefined"
UndefinedPath == <<>>
UndefinedNumber == -1

----------------------------------------------------------------------------
(* Strings and paths *)

StartsWith(s, prefix) ==
  /\ Len(prefix) <= Len(s)
  /\ SubSeq(s, 1, Len(prefix)) = prefix

\* node:path join(directory, name) of a normalized directory and a file name
Join(directory, name) == directory \o <<"/">> \o name

\* the directories of the model: /a, /a/b, /a/b/c, /a/d, and /a_, /ax/c
DirA   == <<"/", "a">>
DirAB  == <<"/", "a", "/", "b">>
DirABC == <<"/", "a", "/", "b", "/", "c">>
DirAD  == <<"/", "a", "/", "d">>
DirAu  == <<"/", "a", "_">>
DirAxC == <<"/", "a", "x", "/", "c">>

\* the FileGroups a run may be given; files is group.files.length
AllGroups ==
  { [language |-> "ts", directory |-> DirA,   files |-> 2],
    [language |-> "ts", directory |-> DirAB,  files |-> 1],
    [language |-> "ts", directory |-> DirABC, files |-> 1],
    [language |-> "ts", directory |-> DirAD,  files |-> 1],
    [language |-> "py", directory |-> DirAB,  files |-> 1],
    [language |-> "ts", directory |-> DirAu,  files |-> 1],
    [language |-> "ts", directory |-> DirAxC, files |-> 1] }

Range(f) == { f[x] : x \in DOMAIN f }

\* fileGroups: Map<Language, FileGroup[]> flattened: the groups of one language are
\* contiguous, and no two groups share (language, directory)
GroupSeqs ==
  { gs \in UNION { [1..n -> AllGroups] : n \in 0..MaxUnits } :
      /\ \A i, j \in DOMAIN gs : i # j => gs[i] # gs[j]
      /\ \A i, j, k \in DOMAIN gs :
           (i < j /\ j < k /\ gs[i].language = gs[k].language)
             => gs[j].language = gs[i].language }

----------------------------------------------------------------------------
(* run(): tasks and dependency edges *)

\* mutant: every other directory is taken for a parent
IsChildOfAnyOther(child, parent) == child # parent

IsChildOf(child, parent) ==
  StartsWith(child, parent \o <<"/">>) /\ child # parent

GetTaskId(group) == <<group.language, ":">> \o group.directory

\* style.<language>.md in the unit's directory
StyleFilePath(group) == Join(group.directory, <<"style.", group.language, ".md">>)

\* mutant: every ancestor is taken for a direct parent
IsDirectParentAlways(gs, group, potentialParent) == TRUE

IsDirectParent(gs, group, potentialParent) ==
  ~ \E k \in DOMAIN gs :
       /\ gs[k].language = group.language
       /\ gs[k].directory # group.directory
       /\ gs[k].directory # potentialParent.directory
       /\ IsChildOf(group.directory, gs[k].directory)
       /\ IsChildOf(gs[k].directory, potentialParent.directory)

\* the nested loops over groups x groups, in their order
BuildEdges(gs) ==
  LET n == Len(gs)
      pairs == [k \in 1..(n * n) |-> <<((k - 1) \div n) + 1, ((k - 1) % n) + 1>>]
      IsEdge(pr) ==
        /\ gs[pr[1]].language = gs[pr[2]].language
        /\ IsChildOf(gs[pr[1]].directory, gs[pr[2]].directory)
        /\ IsDirectParent(gs, gs[pr[1]], gs[pr[2]])
      kept == SelectSeq(pairs, IsEdge)
  IN [k \in 1..Len(kept) |-> <<GetTaskId(gs[kept[k][1]]), GetTaskId(gs[kept[k][2]])>>]

\* the keys of tasks (and of inDeg, taskMetadata), in insertion order
TaskOrder(gs) == [i \in 1..Len(gs) |-> GetTaskId(gs[i])]

TaskIds == Range(TaskOrder(groups))

GroupOf(id) == CHOOSE g \in Range(groups) : GetTaskId(g) = id

----------------------------------------------------------------------------
(* runTasks *)

\* mutant: the edges out of a task are counted
InitialInDegOfChild(ids, es) ==
  [id \in ids |-> Cardinality({k \in DOMAIN es : es[k][1] = id})]

InitialInDeg(ids, es) ==
  [id \in ids |-> Cardinality({k \in DOMAIN es : es[k][2] = id})]

\* mutant: no edge is recorded in outAdj
OutAdjNone(id) == <<>>

\* outAdj.get(id): the parents id unlocks, in edge order
OutAdj(id) ==
  LET mine == SelectSeq(edges, LAMBDA e : e[1] = id)
  IN [k \in 1..Len(mine) |-> mine[k][2]]

\* mutant: every task that has not completed is listed as waiting
QueueStateNotCompleted(s) ==
  LET order == TaskOrder(groups)
      waits == SelectSeq(order, LAMBDA id : id \notin s.completedTasks)
  IN [ready |-> s.readyQueue,
      waiting |-> [k \in 1..Len(waits) |-> <<waits[k], s.inDeg[waits[k]]>>]]

\* what updateQueue passes to onQueueUpdate
QueueState(s) ==
  LET order == TaskOrder(groups)
      waits == SelectSeq(order, LAMBDA id : s.inDeg[id] > 0 /\ id \notin s.completedTasks)
  IN [ready |-> s.readyQueue,
      waiting |-> [k \in 1..Len(waits) |-> <<waits[k], s.inDeg[waits[k]]>>]]

\* run()'s onQueueUpdate callback: queuedTasks = [...readyTasks, ...waitingTasks]
MapQueueState(qs) ==
  [k \in 1..Len(qs.ready) |->
     [id |-> qs.ready[k], language |-> GroupOf(qs.ready[k]).language,
      directory |-> GroupOf(qs.ready[k]).directory, status |-> "ready", pendingDeps |-> 0]]
  \o
  [k \in 1..Len(qs.waiting) |->
     [id |-> qs.waiting[k][1], language |-> GroupOf(qs.waiting[k][1]).language,
      directory |-> GroupOf(qs.waiting[k][1]).directory, status |-> "waiting",
      pendingDeps |-> qs.waiting[k][2]]]

UpdateQueue(s) ==
  LET q == MapQueueState(QueueState(s))
  IN [s EXCEPT !.queuedTasks = q, !.queueUpdates = Append(@, q)]

\* readyQueue.splice(readyQueue.indexOf(id), 1)
RemoveFirst(seq, x) ==
  LET i == CHOOSE k \in DOMAIN seq : seq[k] = x /\ \A j \in 1..(k - 1) : seq[j] # x
  IN SubSeq(seq, 1, i - 1) \o SubSeq(seq, i + 1, Len(seq))

\* mutant: the worker id is read and stays in the queue
GetWorkerKeeps(s, id) ==
  IF s.workerQueue # <<>>
    THEN [s EXCEPT !.assigned[id] = Head(s.workerQueue),
                   !.pc[id] = "acquired"]
    ELSE [s EXCEPT !.pc[id] = "polling"]

\* getWorker(), first pass of its loop: a free worker id, if there is one
GetWorker(s, id) ==
  IF s.workerQueue # <<>>
    THEN [s EXCEPT !.assigned[id] = Head(s.workerQueue),
                   !.workerQueue = Tail(s.workerQueue),
                   !.pc[id] = "acquired"]
    ELSE [s EXCEPT !.pc[id] = "polling"]

\* the job p-queue runs for id, up to its first suspension (await getWorker())
StartJob(s, id) ==
  LET s1 == [s EXCEPT !.pqPending = @ + 1, !.startOrder = Append(@, id)]
      s2 == IF \E k \in DOMAIN s1.readyQueue : s1.readyQueue[k] = id
              THEN UpdateQueue([s1 EXCEPT !.readyQueue = RemoveFirst(@, id)])
              ELSE s1
  IN GetWorker(s2, id)

\* mutant: the concurrency limit is off by one
CanStartOneMore(s) == s.pqPending <= concurrency

\* mutant: one job at a time, whatever the concurrency
CanStartSerial(s) == s.pqPending < 1

\* p-queue: a job starts when fewer than concurrency jobs are pending
CanStart(s) == s.pqPending < concurrency

\* mutant: the job added last is taken
DequeueLast(queue) == Len(queue)

\* p-queue: the index of the job its queue gives next, the one added first
Dequeue(queue) == 1

\* mutant: the job that is started stays in the queue of p-queue
TryToStartAnotherKeeps(s) ==
  IF s.pqQueue # <<>> /\ CanStart(s)
    THEN StartJob(s, s.pqQueue[Dequeue(s.pqQueue)])
    ELSE s

\* p-queue: start the next job of its queue if a slot is free
TryToStartAnother(s) ==
  IF s.pqQueue # <<>> /\ CanStart(s)
    THEN LET k == Dequeue(s.pqQueue)
         IN StartJob([s EXCEPT !.pqQueue = SubSeq(@, 1, k - 1) \o SubSeq(@, k + 1, Len(@))],
                     s.pqQueue[k])
    ELSE s

Enqueue(s, id) ==
  LET s1 == UpdateQueue([s EXCEPT !.readyQueue = Append(@, id), !.pc[id] = "ready",
                                  !.readyOrder = Append(@, id)])
  IN TryToStartAnother([s1 EXCEPT !.pqQueue = Append(@, id)])

\* mutant: a parent is unlocked one dependency early
UnlockedAtOne(n) == n <= 1

\* a parent is unlocked when its pending count reaches 0
Unlocked(n) == n = 0

RECURSIVE UnlockFrom(_, _, _)
UnlockFrom(s, parents, k) ==
  IF k > Len(parents) THEN s
  ELSE LET s1 == [s EXCEPT !.inDeg[parents[k]] = @ - 1]
           s2 == IF Unlocked(s1.inDeg[parents[k]]) THEN Enqueue(s1, parents[k]) ELSE s1
       IN UnlockFrom(s2, parents, k + 1)

\* mutant: every task is seeded, whatever its pending count
IsRootAlways(n) == n >= 0

\* a task is a root when it has no pending dependency
IsRoot(n) == n = 0

RECURSIVE SeedFrom(_, _, _)
SeedFrom(s, order, k) ==
  IF k > Len(order) THEN s
  ELSE SeedFrom(IF IsRoot(s.inDeg[order[k]]) THEN Enqueue(s, order[k]) ELSE s, order, k + 1)

\* the scheduler's state as one record, and back
Sched ==
  [inDeg |-> inDeg, readyQueue |-> readyQueue, completedTasks |-> completedTasks,
   pqQueue |-> pqQueue, pqPending |-> pqPending, workerQueue |-> workerQueue,
   pc |-> pc, assigned |-> assigned, queuedTasks |-> queuedTasks, queueUpdates |-> <<>>,
   readyOrder |-> readyOrder, startOrder |-> startOrder]

SetSched(s) ==
  \E v \in {s} :
    /\ inDeg' = v.inDeg
    /\ readyQueue' = v.readyQueue
    /\ completedTasks' = v.completedTasks
    /\ pqQueue' = v.pqQueue
    /\ pqPending' = v.pqPending
    /\ workerQueue' = v.workerQueue
    /\ pc' = v.pc
    /\ assigned' = v.assigned
    /\ queuedTasks' = v.queuedTasks
    /\ queueUpdates' = v.queueUpdates
    /\ readyOrder' = v.readyOrder
    /\ startOrder' = v.startOrder

----------------------------------------------------------------------------
(* Workers *)

IdleWorker ==
  [status |-> "idle", language |-> Undefined, directory |-> UndefinedPath,
   error |-> Undefined, progress |-> Undefined]

\* what onWorkerUpdate receives: the worker, with its id
Emit(id, w) ==
  [id |-> id, status |-> w.status, language |-> w.language, directory |-> w.directory,
   error |-> w.error, progress |-> w.progress]

ErrCancelled == "Operation cancelled"
ErrFailed == "Gemini command failed"
ProgressMessage == "Analyzing"

\* the sum of group.files.length
RECURSIVE SumFiles(_, _)
SumFiles(gs, k) == IF k > Len(gs) THEN 0 ELSE gs[k].files + SumFiles(gs, k + 1)

\* the run's file cleanup handler in the registry
FileCleanupHandler == "createFileCleanupHandler(createdFiles)"

----------------------------------------------------------------------------
(* The database (DB), table style_guides *)

\* this.runId of the DB the processor was given, and the run_id of another run
RunId == "run-1"
OtherRunId == "run-0"

\* SQLite folds the ASCII upper case letters of both operands of LIKE
Lower(c) ==
  LET fold == ("A" :> "a") @@ ("B" :> "b") @@ ("C" :> "c") @@ ("D" :> "d") @@
              ("E" :> "e") @@ ("F" :> "f") @@ ("G" :> "g") @@ ("H" :> "h") @@
              ("I" :> "i") @@ ("J" :> "j") @@ ("K" :> "k") @@ ("L" :> "l") @@
              ("M" :> "m") @@ ("N" :> "n") @@ ("O" :> "o") @@ ("P" :> "p") @@
              ("Q" :> "q") @@ ("R" :> "r") @@ ("S" :> "s") @@ ("T" :> "t") @@
              ("U" :> "u") @@ ("V" :> "v") @@ ("W" :> "w") @@ ("X" :> "x") @@
              ("Y" :> "y") @@ ("Z" :> "z")
  IN IF c \in DOMAIN fold THEN fold[c] ELSE c

\* s LIKE pattern, as SQLite evaluates it: % is any run of characters, _ is any one
\* character, letters match whatever their case, and nothing is escaped
RECURSIVE Like(_, _)
Like(s, pattern) ==
  IF pattern = <<>> THEN s = <<>>
  ELSE IF Head(pattern) = "%"
    THEN \E k \in 0..Len(s) : Like(SubSeq(s, k + 1, Len(s)), Tail(pattern))
  ELSE /\ s # <<>>
       /\ Head(pattern) = "_" \/ Lower(Head(pattern)) = Lower(Head(s))
       /\ Like(Tail(s), Tail(pattern))

\* the segments of an absolute path
RECURSIVE Segments(_)
Segments(path) ==
  IF path = <<>> THEN <<>>
  ELSE IF Head(path) = "/" THEN Segments(Tail(path))
  ELSE LET n == IF \E i \in DOMAIN path : path[i] = "/"
                  THEN (CHOOSE i \in DOMAIN path :
                          path[i] = "/" /\ \A j \in 1..(i - 1) : path[j] # "/") - 1
                  ELSE Len(path)
       IN <<SubSeq(path, 1, n)>> \o Segments(SubSeq(path, n + 1, Len(path)))

RECURSIVE JoinSegments(_)
JoinSegments(segs) ==
  IF segs = <<>> THEN <<>>
  ELSE IF Len(segs) = 1 THEN Head(segs)
  ELSE Head(segs) \o <<"/">> \o JoinSegments(Tail(segs))

\* node:path relative(from, to) of two absolute paths: up from what is left of from
\* after their common segments, then down what is left of to
Relative(from, to) ==
  LET f == Segments(from)
      g == Segments(to)
      Common(k) == k <= Len(f) /\ k <= Len(g) /\ \A i \in 1..k : f[i] = g[i]
      c == CHOOSE k \in 0..Len(f) : Common(k) /\ ~ Common(k + 1)
  IN JoinSegments([i \in 1..(Len(f) - c) |-> <<"..">>] \o SubSeq(g, c + 1, Len(g)))

\* the rows getChildStyleGuides keeps: the SELECT, then the filter on the text after
\* parentDirectory.length + 1 characters
ImmediateChildren(rows, runId, parentDirectory, language) ==
  LET selected == { r \in rows :
                      /\ r[1] = runId
                      /\ r[2] = language
                      /\ Like(r[3], parentDirectory \o <<"/", "%">>)
                      /\ r[3] # parentDirectory }
      relativePath(r) == SubSeq(r[3], Len(parentDirectory) + 2, Len(r[3]))
  IN { r \in selected : \A i \in DOMAIN relativePath(r) : relativePath(r)[i] # "/" }

\* DB.getChildStyleGuides(directory, language) of the processor's database: the
\* directory keys of what it returns
GetChildStyleGuides(directory, language) ==
  { Relative(directory, r[3]) : r \in ImmediateChildren(db, RunId, directory, language) }

\* the handlers that get registered: the run's, and two of other modules
RegistryHandlers == {FileCleanupHandler, "handler-1", "handler-2"}

----------------------------------------------------------------------------
(* The explorer's toposort *)

\* the filesystem root, the directory of a file such as /index.ts
DirRoot == <<"/">>

\* s.split("/")
RECURSIVE Split(_)
Split(s) ==
  IF \E i \in DOMAIN s : s[i] = "/"
    THEN LET i == CHOOSE k \in DOMAIN s : s[k] = "/" /\ \A j \in 1..(k - 1) : s[j] # "/"
         IN <<SubSeq(s, 1, i - 1)>> \o Split(SubSeq(s, i + 1, Len(s)))
    ELSE <<s>>

IsChildDirectory(child, parent) ==
  IF child = parent THEN FALSE
  ELSE LET childParts == Split(child)
           parentParts == Split(parent)
       IN IF Len(childParts) <= Len(parentParts) THEN FALSE
          ELSE \A i \in 1..Len(parentParts) : childParts[i] = parentParts[i]

\* the UTF-16 code unit of a character of the model's directories
CharCode(c) ==
  CASE c = "/" -> 47
    [] c = "_" -> 95
    [] c = "a" -> 97
    [] c = "b" -> 98
    [] c = "c" -> 99
    [] c = "d" -> 100
    [] c = "x" -> 120

\* the order Array.prototype.sort() puts two different strings in
Before(s, t) ==
  \E k \in 1..(Len(s) + 1) :
    /\ \A j \in 1..(k - 1) : j <= Len(t) /\ s[j] = t[j]
    /\ \/ k = Len(s) + 1 /\ Len(t) >= k
       \/ k <= Len(s) /\ k <= Len(t) /\ CharCode(s[k]) < CharCode(t[k])

\* [...].sort() of different strings
RECURSIVE Sort(_)
Sort(set) ==
  IF set = {} THEN <<>>
  ELSE LET first == CHOOSE s \in set : \A other \in set \ {s} : Before(s, other)
       IN <<first>> \o Sort(set \ {first})

\* dfs(dir) of toposort, and its loop over a sorted list of directories; st is the
\* visited Set and the sorted array
RECURSIVE Dfs(_, _, _)
RECURSIVE DfsEach(_, _, _, _)
Dfs(adjacency, dir, st) ==
  IF dir \in st.visited THEN st
  ELSE LET s1 == [st EXCEPT !.visited = @ \cup {dir}]
           s2 == DfsEach(adjacency, Sort(adjacency[dir]), 1, s1)
       IN [s2 EXCEPT !.sorted = Append(@, dir)]

DfsEach(adjacency, list, k, st) ==
  IF k > Len(list) THEN st
  ELSE DfsEach(adjacency, list, k + 1, Dfs(adjacency, list[k], st))

\* the body of toposort's loop: the sorted groups of one language
SortedGroupsOf(gs) ==
  IF Len(gs) = 0 THEN <<>>
  ELSE
    LET directories == [i \in DOMAIN gs |-> gs[i].directory]
        dirs == Range(directories)
        IsDirectChild(child, parent) ==
          /\ IsChildDirectory(child, parent)
          /\ ~ \E d \in dirs : /\ d # child
                               /\ d # parent
                               /\ IsChildDirectory(child, d)
                               /\ IsChildDirectory(d, parent)
        adjacency == [parent \in dirs |-> { child \in dirs : IsDirectChild(child, parent) }]
        roots == Sort({ d \in dirs :
                         ~ \E other \in dirs : other # d /\ IsChildDirectory(d, other) })
        sorted == DfsEach(adjacency, roots, 1, [visited |-> {}, sorted |-> <<>>]).sorted
        Find(dir) == gs[CHOOSE i \in DOMAIN gs :
                          gs[i].directory = dir /\ \A j \in 1..(i - 1) : gs[j].directory # dir]
    IN [k \in 1..Len(sorted) |-> Find(sorted[k])]

\* toposort(fileGroups)
Toposort(fg) == [language \in DOMAIN fg |-> SortedGroupsOf(fg[language])]

\* a Map, a Record or an array with no entry
EmptyMap == [x \in {} |-> x]

----------------------------------------------------------------------------
(* The initial state: a processor was created, run() was not called *)

Init ==
  /\ concurrency \in 1..MaxConcurrency
  /\ workers = [id \in 1..concurrency |-> IdleWorker]
  /\ total = UndefinedNumber
  /\ completed = UndefinedNumber
  /\ queuedTasks = <<>>
  /\ abortController = Undefined
  /\ phase = "none"
  /\ groups = <<>>
  /\ createdStyleGuides = EmptyMap
  /\ createdFiles = {}
  /\ results = {}
  /\ workerQueue = <<>>
  /\ edges = <<>>
  /\ inDeg = EmptyMap
  /\ readyQueue = <<>>
  /\ completedTasks = {}
  /\ pqQueue = <<>>
  /\ pqPending = 0
  /\ pc = EmptyMap
  /\ assigned = EmptyMap
  /\ signal = EmptyMap
  /\ childGuides = EmptyMap
  /\ outcome = EmptyMap
  /\ renamePending = {}
  /\ unlinkPending = {}
  /\ unlinkCalled = {}
  /\ unlinkFailed = {}
  /\ renameFailed = {}
  /\ fs = {}
  /\ outputFiles = EmptyMap
  /\ db = {}
  /\ handlers = {}
  /\ workerUpdates = <<>>
  /\ queueUpdates = <<>>
  /\ progressUpdates = <<>>
  /\ isShuttingDown = FALSE
  /\ invoked = [handler \in RegistryHandlers |-> 0]
  /\ cleanupCalls = 0
  /\ lastQuery = {}
  /\ handlerResult = [handler \in RegistryHandlers |-> "none"]
  /\ cleanupPromises = <<>>
  /\ unregistered = {}
  /\ handlerUnlinks = EmptyMap
  /\ handlerPromise = "none"
  /\ fileGroups = EmptyMap
  /\ sortedGroups = EmptyMap
  /\ cancelled = FALSE
  /\ trackedAtReset = {}
  /\ readyOrder = <<>>
  /\ startOrder = <<>>
  /\ inFlightAtReset = {}

----------------------------------------------------------------------------
(* run(): from the call to the first await (mkdir) *)

Run(gs) ==
  /\ phase = "none"
  /\ phase' = "mkdir"
  /\ groups' = gs
  /\ createdStyleGuides' = EmptyMap
  /\ createdFiles' = {}
  /\ abortController' = "live"
  /\ handlers' = handlers \cup {FileCleanupHandler}
  /\ completed' = 0
  /\ total' = SumFiles(gs, 1)
  /\ workerUpdates' = <<>>
  /\ queueUpdates' = <<>>
  /\ progressUpdates' = <<>>
  /\ UNCHANGED <<concurrency, workers, queuedTasks, results, workerQueue>>
  /\ UNCHANGED <<schedVars, taskVars>>
  /\ UNCHANGED <<renamePending, unlinkPending, unlinkCalled, unlinkFailed, renameFailed,
                 fs, outputFiles, db>>
  /\ cancelled' = FALSE
  /\ trackedAtReset' = {}
  /\ inFlightAtReset' = {}
  /\ UNCHANGED <<readyOrder, startOrder>>
  /\ UNCHANGED libVars

\* mutant: a run whose abort controller was cleared by reset() throws
FinallyOfThrowsIfAborted(settled) ==
  /\ abortController' = Undefined
  /\ handlers' = handlers \ {FileCleanupHandler}
  /\ IF createdFiles # {}
       THEN /\ unlinkPending' = createdFiles
            /\ unlinkCalled' = createdFiles
            /\ phase' = "cleaning"
       ELSE /\ UNCHANGED <<unlinkPending, unlinkCalled>>
            /\ phase' = IF abortController = Undefined THEN "rejected" ELSE settled

\* mutant: the finally block does not call unregisterCleanup()
FinallyOfKeepsHandler(settled) ==
  /\ abortController' = Undefined
  /\ handlers' = handlers
  /\ IF createdFiles # {}
       THEN /\ unlinkPending' = createdFiles
            /\ unlinkCalled' = createdFiles
            /\ phase' = "cleaning"
       ELSE /\ UNCHANGED <<unlinkPending, unlinkCalled>>
            /\ phase' = settled

\* the finally block of run(): what it does before its unlinks are awaited
FinallyOf(settled) ==
  /\ abortController' = Undefined
  /\ handlers' = handlers \ {FileCleanupHandler}
  /\ IF createdFiles # {}
       THEN /\ unlinkPending' = createdFiles
            /\ unlinkCalled' = createdFiles
            /\ phase' = "cleaning"
       ELSE /\ UNCHANGED <<unlinkPending, unlinkCalled>>
            /\ phase' = settled

\* mkdir(outputDir) rejects: run() rejects after its finally block
MkdirFail ==
  /\ phase = "mkdir"
  /\ FinallyOf("rejected")
  /\ workerUpdates' = <<>>
  /\ queueUpdates' = <<>>
  /\ progressUpdates' = <<>>
  /\ UNCHANGED <<concurrency, workers, total, completed, queuedTasks>>
  /\ UNCHANGED <<groups, createdStyleGuides, createdFiles, results, workerQueue>>
  /\ UNCHANGED <<schedVars, taskVars>>
  /\ UNCHANGED <<renamePending, unlinkFailed, renameFailed, fs, outputFiles, db>>
  /\ UNCHANGED <<libVars, histVars>>

\* mkdir(outputDir) resolves: edges, tasks, the worker queue, then runTasks up to
\* await q.onIdle()
MkdirOk ==
  /\ phase = "mkdir"
  /\ phase' = "running"
  /\ LET es == BuildEdges(groups)
         order == TaskOrder(groups)
         ids == Range(order)
         s0 == [inDeg |-> InitialInDeg(ids, es), readyQueue |-> <<>>,
                completedTasks |-> {}, pqQueue |-> <<>>, pqPending |-> 0,
                workerQueue |-> [k \in 1..concurrency |-> k],
                pc |-> [id \in ids |-> "waiting"], assigned |-> [id \in ids |-> 0],
                queuedTasks |-> queuedTasks, queueUpdates |-> <<>>,
                readyOrder |-> <<>>, startOrder |-> <<>>]
     IN /\ edges' = es
        /\ SetSched(SeedFrom(s0, order, 1))
        /\ signal' = [id \in ids |-> "none"]
        /\ childGuides' = [id \in ids |-> {}]
        /\ outcome' = [id \in ids |-> "none"]
  /\ workerUpdates' = <<>>
  /\ progressUpdates' = <<>>
  /\ UNCHANGED <<concurrency, workers, total, completed, abortController>>
  /\ UNCHANGED <<groups, createdStyleGuides, createdFiles, results>>
  /\ UNCHANGED envVars
  /\ UNCHANGED <<libVars, cancelled, trackedAtReset, inFlightAtReset>>

----------------------------------------------------------------------------
(* The task of one unit (tasks[taskId]) *)

\* after await getWorker(): the worker is working, the child guides are read and
\* generateStyleGuide is called with the run's abort signal
BeginTask(id) ==
  /\ id \in DOMAIN pc
  /\ pc[id] = "acquired"
  /\ LET w == assigned[id]
         g == GroupOf(id)
     IN /\ workers' = [workers EXCEPT ![w].status = "working",
                                      ![w].language = g.language,
                                      ![w].directory = g.directory]
        /\ workerUpdates' = <<Emit(w, workers'[w])>>
        /\ childGuides' = [childGuides EXCEPT ![id] =
                             GetChildStyleGuides(g.directory, g.language)]
  /\ signal' = [signal EXCEPT ![id] = IF abortController = "live" THEN "live" ELSE "none"]
  /\ pc' = [pc EXCEPT ![id] = "generating"]
  /\ queueUpdates' = <<>>
  /\ progressUpdates' = <<>>
  /\ UNCHANGED <<concurrency, total, completed, queuedTasks, abortController>>
  /\ UNCHANGED <<runVars, schedVars, envVars>>
  /\ UNCHANGED <<assigned, outcome>>
  /\ UNCHANGED <<libVars, histVars>>

\* the Generator reports a [PROGRESS] line
GenProgress(id) ==
  /\ id \in DOMAIN pc
  /\ pc[id] = "generating"
  /\ signal[id] # "aborted"
  /\ LET w == assigned[id]
     IN /\ workers' = [workers EXCEPT ![w].progress = ProgressMessage]
        /\ workerUpdates' = <<Emit(w, workers'[w])>>
  /\ queueUpdates' = <<>>
  /\ progressUpdates' = <<>>
  /\ UNCHANGED <<concurrency, total, completed, queuedTasks, abortController>>
  /\ UNCHANGED <<runVars, schedVars, taskVars, envVars>>
  /\ UNCHANGED <<libVars, histVars>>

\* createdStyleGuides.get(language).push(path), creating the array when missing
MapPush(m, k, v) ==
  IF k \in DOMAIN m
    THEN [m EXCEPT ![k] = Append(@, v)]
    ELSE [x \in DOMAIN m \cup {k} |-> IF x = k THEN <<v>> ELSE m[x]]

\* mutant: a unit counts as one file
AddCompletedOne(n) == (IF completed = UndefinedNumber THEN 0 ELSE completed) + 1

\* completed = (completed ?? 0) + group.files.length
AddCompleted(n) == (IF completed = UndefinedNumber THEN 0 ELSE completed) + n

\* mutant: the worker id is not given back
ReleaseWorkerDrops(queue, workerId) == queue

\* releaseWorker(workerId): workerQueue.push(workerId)
ReleaseWorker(queue, workerId) == Append(queue, workerId)

\* mutant: the finally block releases the worker id and leaves the worker as it is
TaskFinallyReleaseOnly(id, ws, update) ==
  LET w == assigned[id]
  IN /\ workerQueue' = ReleaseWorker(workerQueue, w)
     /\ workers' = ws
     /\ workerUpdates' = <<update>>
     /\ completed' = AddCompleted(GroupOf(id).files)
     /\ progressUpdates' = <<completed'>>
     /\ pc' = [pc EXCEPT ![id] = "settled"]
     /\ assigned' = [assigned EXCEPT ![id] = 0]
     /\ signal' = [signal EXCEPT ![id] = "none"]
     /\ childGuides' = [childGuides EXCEPT ![id] = {}]

\* mutant: the finally block sets the status and leaves the other fields
TaskFinallyStatusOnly(id, ws, update) ==
  LET w == assigned[id]
      idle == [ws EXCEPT ![w].status = "idle"]
  IN /\ workerQueue' = ReleaseWorker(workerQueue, w)
     /\ workers' = idle
     /\ workerUpdates' = <<update, Emit(w, idle[w])>>
     /\ completed' = AddCompleted(GroupOf(id).files)
     /\ progressUpdates' = <<completed'>>
     /\ pc' = [pc EXCEPT ![id] = "settled"]
     \* the task has returned: its locals are gone
     /\ assigned' = [assigned EXCEPT ![id] = 0]
     /\ signal' = [signal EXCEPT ![id] = "none"]
     /\ childGuides' = [childGuides EXCEPT ![id] = {}]

\* the finally block of the task: the worker is released and idle again, the
\* progress is reported.  ws is the workers array as the try or catch block left it.
TaskFinally(id, ws, update) ==
  LET w == assigned[id]
      idle == [ws EXCEPT ![w] = IdleWorker]
  IN /\ workerQueue' = ReleaseWorker(workerQueue, w)
     /\ workers' = idle
     /\ workerUpdates' = <<update, Emit(w, idle[w])>>
     /\ completed' = AddCompleted(GroupOf(id).files)
     /\ progressUpdates' = <<completed'>>
     /\ pc' = [pc EXCEPT ![id] = "settled"]
     \* the task has returned: its locals are gone
     /\ assigned' = [assigned EXCEPT ![id] = 0]
     /\ signal' = [signal EXCEPT ![id] = "none"]
     /\ childGuides' = [childGuides EXCEPT ![id] = {}]

\* mutant: the artifact is a candidate of its language but is not tracked for cleanup
RegisterNoCleanup(g) ==
  /\ createdStyleGuides' = MapPush(createdStyleGuides, g.language, StyleFilePath(g))
  /\ createdFiles' = createdFiles

\* the artifacts run() tracks after a successful Generator call
Register(g) ==
  /\ createdStyleGuides' = MapPush(createdStyleGuides, g.language, StyleFilePath(g))
  /\ createdFiles' = createdFiles \cup {StyleFilePath(g)}

\* generateStyleGuide returns: the Generator wrote the artifact file
GenReturn(id) ==
  /\ id \in DOMAIN pc
  /\ pc[id] = "generating"
  /\ signal[id] # "aborted"
  /\ LET g == GroupOf(id)
         w == assigned[id]
         ok == [workers EXCEPT ![w].status = "success",
                               ![w].language = g.language,
                               ![w].directory = g.directory]
     IN /\ fs' = fs \cup {StyleFilePath(g)}
        /\ db' = db \cup {<<RunId, g.language, g.directory>>}
        /\ Register(g)
        /\ TaskFinally(id, ok, Emit(w, ok[w]))
  /\ outcome' = [outcome EXCEPT ![id] = "success"]
  /\ queueUpdates' = <<>>
  /\ UNCHANGED <<concurrency, total, queuedTasks, abortController>>
  /\ UNCHANGED <<phase, groups, results>>
  /\ UNCHANGED schedVars
  /\ UNCHANGED <<renamePending, unlinkPending, unlinkCalled, unlinkFailed, renameFailed,
                 outputFiles, handlers>>
  /\ UNCHANGED <<libVars, histVars>>

\* mutant: the error message is not put on the worker
CatchUpdateNoMessage(ws, w, g, message) ==
  [ws EXCEPT ![w].status = "error",
             ![w].language = g.language,
             ![w].directory = g.directory]

\* the catch block of the task: updateWorker(status error, language, directory, error)
CatchUpdate(ws, w, g, message) ==
  [ws EXCEPT ![w].status = "error",
             ![w].language = g.language,
             ![w].directory = g.directory,
             ![w].error = message]

\* mutant: the artifact of a unit whose Generator threw is tracked all the same
GenThrowRegisters(id, wrote) ==
  /\ id \in DOMAIN pc
  /\ pc[id] = "generating"
  /\ LET g == GroupOf(id)
         w == assigned[id]
         message == IF signal[id] = "aborted" THEN ErrCancelled ELSE ErrFailed
         err == CatchUpdate(workers, w, g, message)
     IN /\ fs' = IF wrote THEN fs \cup {StyleFilePath(g)} ELSE fs
        /\ Register(g)
        /\ TaskFinally(id, err, Emit(w, err[w]))
  /\ outcome' = [outcome EXCEPT ![id] = "error"]
  /\ queueUpdates' = <<>>
  /\ UNCHANGED <<concurrency, total, queuedTasks, abortController>>
  /\ UNCHANGED <<phase, groups, results>>
  /\ UNCHANGED schedVars
  /\ UNCHANGED <<renamePending, unlinkPending, unlinkCalled, unlinkFailed, renameFailed,
                 outputFiles, db, handlers>>
  /\ UNCHANGED <<libVars, histVars>>

\* generateStyleGuide throws, having written the artifact file (wrote) or not
GenThrow(id, wrote) ==
  /\ id \in DOMAIN pc
  /\ pc[id] = "generating"
  /\ LET g == GroupOf(id)
         w == assigned[id]
         message == IF signal[id] = "aborted" THEN ErrCancelled ELSE ErrFailed
         err == CatchUpdate(workers, w, g, message)
     IN /\ fs' = IF wrote THEN fs \cup {StyleFilePath(g)} ELSE fs
        /\ TaskFinally(id, err, Emit(w, err[w]))
  /\ outcome' = [outcome EXCEPT ![id] = "error"]
  /\ queueUpdates' = <<>>
  /\ UNCHANGED <<concurrency, total, queuedTasks, abortController>>
  /\ UNCHANGED <<phase, groups, createdStyleGuides, createdFiles, results>>
  /\ UNCHANGED schedVars
  /\ UNCHANGED <<renamePending, unlinkPending, unlinkCalled, unlinkFailed, renameFailed,
                 outputFiles, db, handlers>>
  /\ UNCHANGED <<libVars, histVars>>

----------------------------------------------------------------------------
(* The p-queue job around a task (runTasks.enqueue) *)

\* mutant: the task's exception is thrown again
SwallowedOnSuccess(id) == outcome[id] # "error"

\* catch (_error) {}: a task's exception does not leave the job
Swallowed(id) == TRUE

\* the job after its try/catch: the task is completed, its dependents are unlocked
AfterTask(s, id) ==
  UpdateQueue(UnlockFrom([s EXCEPT !.completedTasks = @ \cup {id}], OutAdj(id), 1))

\* after await tasks[id](), whether it threw or not
FinishJob(id) ==
  /\ id \in DOMAIN pc
  /\ pc[id] = "settled"
  /\ LET s1 == [Sched EXCEPT !.pc[id] = "finishing"]
     IN SetSched(IF Swallowed(id) THEN AfterTask(s1, id) ELSE s1)
  /\ workerUpdates' = <<>>
  /\ progressUpdates' = <<>>
  /\ UNCHANGED <<concurrency, workers, total, completed, abortController>>
  /\ UNCHANGED <<phase, groups, createdStyleGuides, createdFiles, results>>
  /\ UNCHANGED <<edges, signal, childGuides, outcome>>
  /\ UNCHANGED envVars
  /\ UNCHANGED <<libVars, cancelled, trackedAtReset, inFlightAtReset>>

\* p-queue, when the job's promise has settled: one pending job less, and the next
\* job of its queue starts
PQueueNext(id) ==
  /\ id \in DOMAIN pc
  /\ pc[id] = "finishing"
  /\ SetSched(TryToStartAnother([Sched EXCEPT !.pqPending = @ - 1, !.pc[id] = "done"]))
  /\ workerUpdates' = <<>>
  /\ progressUpdates' = <<>>
  /\ UNCHANGED <<concurrency, workers, total, completed, abortController>>
  /\ UNCHANGED <<phase, groups, createdStyleGuides, createdFiles, results>>
  /\ UNCHANGED <<edges, signal, childGuides, outcome>>
  /\ UNCHANGED envVars
  /\ UNCHANGED <<libVars, cancelled, trackedAtReset, inFlightAtReset>>

----------------------------------------------------------------------------
(* run(): after runTasks *)

\* mutant: q.onEmpty() in place of q.onIdle()
IdleWhenEmpty == pqQueue = <<>>

\* q.onIdle() resolves: p-queue has no job queued and no job pending
Idle == pqQueue = <<>> /\ pqPending = 0

\* mutant: the first registered path of the language is moved
FirstPath(language) == createdStyleGuides[language][1]

\* sourcePaths[sourcePaths.length - 1]
LastPath(language) ==
  createdStyleGuides[language][Len(createdStyleGuides[language])]

\* mutant: a language with one registered path is skipped
RenameTargetsMany(created) == { l \in DOMAIN created : Len(created[l]) > 1 }

\* for (const [language, sourcePaths] of createdStyleGuides.entries())
RenameTargets(created) == DOMAIN created

\* the rename of each language's last path is started
Promote ==
  /\ phase = "running"
  /\ Idle
  /\ phase' = "promoting"
  /\ renamePending' = RenameTargets(createdStyleGuides)
  /\ workerUpdates' = <<>>
  /\ queueUpdates' = <<>>
  /\ progressUpdates' = <<>>
  /\ UNCHANGED procVars
  /\ UNCHANGED <<groups, createdStyleGuides, createdFiles, results, workerQueue>>
  /\ UNCHANGED <<schedVars, taskVars>>
  /\ UNCHANGED <<unlinkPending, unlinkCalled, unlinkFailed, renameFailed,
                 fs, outputFiles, db, handlers>>
  /\ UNCHANGED <<libVars, histVars>>

\* rename(sourcePath, <outputDir>/<language>.md) resolves
RenameOk(language) ==
  /\ phase = "promoting"
  /\ language \in renamePending
  /\ LastPath(language) \in fs
  /\ fs' = fs \ {LastPath(language)}
  /\ outputFiles' = [l \in DOMAIN outputFiles \cup {language} |->
                       IF l = language THEN LastPath(language) ELSE outputFiles[l]]
  /\ createdFiles' = createdFiles \ {LastPath(language)}
  /\ renamePending' = renamePending \ {language}
  /\ workerUpdates' = <<>>
  /\ queueUpdates' = <<>>
  /\ progressUpdates' = <<>>
  /\ UNCHANGED procVars
  /\ UNCHANGED <<phase, groups, createdStyleGuides, results, workerQueue>>
  /\ UNCHANGED <<schedVars, taskVars>>
  /\ UNCHANGED <<unlinkPending, unlinkCalled, unlinkFailed, renameFailed, db, handlers>>
  /\ UNCHANGED <<libVars, histVars>>

\* mutant: a path whose rename rejected is dropped from the cleanup set too
RenameFailUntracked(language) ==
  /\ phase = "promoting"
  /\ language \in renamePending
  /\ renamePending' = renamePending \ {language}
  /\ renameFailed' = renameFailed \cup {language}
  /\ createdFiles' = createdFiles \ {LastPath(language)}
  /\ workerUpdates' = <<>>
  /\ queueUpdates' = <<>>
  /\ progressUpdates' = <<>>
  /\ UNCHANGED procVars
  /\ UNCHANGED <<phase, groups, createdStyleGuides, results, workerQueue>>
  /\ UNCHANGED <<schedVars, taskVars>>
  /\ UNCHANGED <<unlinkPending, unlinkCalled, unlinkFailed, fs, outputFiles, db, handlers>>
  /\ UNCHANGED <<libVars, histVars>>

\* rename rejects: the error is logged
RenameFail(language) ==
  /\ phase = "promoting"
  /\ language \in renamePending
  /\ renamePending' = renamePending \ {language}
  /\ renameFailed' = renameFailed \cup {language}
  /\ workerUpdates' = <<>>
  /\ queueUpdates' = <<>>
  /\ progressUpdates' = <<>>
  /\ UNCHANGED procVars
  /\ UNCHANGED <<runVars, schedVars, taskVars>>
  /\ UNCHANGED <<unlinkPending, unlinkCalled, unlinkFailed, fs, outputFiles, db, handlers>>
  /\ UNCHANGED <<libVars, histVars>>

\* mutant: only the languages whose artifact was moved are returned
ResultsOfRenamed(created) == DOMAIN outputFiles

\* the keys of the Map run() returns
ResultsOf(created) == DOMAIN created

\* every rename has settled: the queue is cleared, the results are built, and the
\* finally block starts the unlinks
Finish ==
  /\ phase = "promoting"
  /\ renamePending = {}
  /\ queuedTasks' = <<>>
  /\ queueUpdates' = << <<>> >>
  /\ results' = ResultsOf(createdStyleGuides)
  /\ FinallyOf("resolved")
  /\ workerUpdates' = <<>>
  /\ progressUpdates' = <<>>
  /\ UNCHANGED <<concurrency, workers, total, completed>>
  /\ UNCHANGED <<groups, createdStyleGuides, createdFiles, workerQueue>>
  /\ UNCHANGED <<schedVars, taskVars>>
  /\ UNCHANGED <<renamePending, unlinkFailed, renameFailed, fs, outputFiles, db>>
  /\ UNCHANGED <<libVars, histVars>>

\* unlink(filePath) resolves
UnlinkOk(path) ==
  /\ phase = "cleaning"
  /\ path \in unlinkPending
  /\ path \in fs
  /\ fs' = fs \ {path}
  /\ unlinkPending' = unlinkPending \ {path}
  /\ workerUpdates' = <<>>
  /\ queueUpdates' = <<>>
  /\ progressUpdates' = <<>>
  /\ UNCHANGED procVars
  /\ UNCHANGED <<runVars, schedVars, taskVars>>
  /\ UNCHANGED <<renamePending, unlinkCalled, unlinkFailed, renameFailed,
                 outputFiles, db, handlers>>
  /\ UNCHANGED <<libVars, histVars>>

\* mutant: a rejected unlink is not caught, Promise.all rejects and so does run()
UnlinkFailRejects(path) ==
  /\ phase = "cleaning"
  /\ path \in unlinkPending
  /\ unlinkFailed' = unlinkFailed \cup {path}
  /\ unlinkPending' = unlinkPending \ {path}
  /\ phase' = "rejected"
  /\ workerUpdates' = <<>>
  /\ queueUpdates' = <<>>
  /\ progressUpdates' = <<>>
  /\ UNCHANGED procVars
  /\ UNCHANGED <<groups, createdStyleGuides, createdFiles, results, workerQueue>>
  /\ UNCHANGED <<schedVars, taskVars>>
  /\ UNCHANGED <<renamePending, unlinkCalled, renameFailed, fs, outputFiles, db, handlers>>
  /\ UNCHANGED <<libVars, histVars>>

\* unlink(filePath) rejects: the error is ignored
UnlinkFail(path) ==
  /\ phase = "cleaning"
  /\ path \in unlinkPending
  /\ unlinkFailed' = unlinkFailed \cup {path}
  /\ unlinkPending' = unlinkPending \ {path}
  /\ workerUpdates' = <<>>
  /\ queueUpdates' = <<>>
  /\ progressUpdates' = <<>>
  /\ UNCHANGED procVars
  /\ UNCHANGED <<runVars, schedVars, taskVars>>
  /\ UNCHANGED <<renamePending, unlinkCalled, renameFailed, fs, outputFiles, db, handlers>>
  /\ UNCHANGED <<libVars, histVars>>

\* every unlink has settled: run() resolves with results
Settle ==
  /\ phase = "cleaning"
  /\ unlinkPending = {}
  /\ phase' = "resolved"
  /\ workerUpdates' = <<>>
  /\ queueUpdates' = <<>>
  /\ progressUpdates' = <<>>
  /\ UNCHANGED procVars
  /\ UNCHANGED <<groups, createdStyleGuides, createdFiles, results, workerQueue>>
  /\ UNCHANGED <<schedVars, taskVars, envVars>>
  /\ UNCHANGED <<libVars, histVars>>

----------------------------------------------------------------------------
(* reset() *)

\* reset() is called by the processor's user, from a task of the event loop: no
\* continuation of the run is waiting in the microtask queue
Quiescent ==
  /\ \A id \in DOMAIN pc : pc[id] \notin {"acquired", "settled", "finishing"}
  /\ ~ (phase = "running" /\ Idle)
  /\ ~ (phase = "promoting" /\ renamePending = {})
  /\ ~ (phase = "cleaning" /\ unlinkPending = {})

\* run() was called and has not settled
Running == phase \in {"mkdir", "running", "promoting", "cleaning"}

\* mutant: reset() sets the status of a worker and leaves its other fields
ResetWorkerStatusOnly(w) == [w EXCEPT !.status = "idle"]

\* the body of reset()'s loop over the workers
ResetWorker(w) ==
  [w EXCEPT !.status = "idle", !.directory = UndefinedPath, !.language = Undefined,
            !.error = Undefined, !.progress = Undefined]

\* abortController?.abort(): every holder of the run's signal sees it aborted
Abort(sig) == IF abortController = "live" /\ sig = "live" THEN "aborted" ELSE sig

Reset ==
  /\ Quiescent
  /\ signal' = [id \in DOMAIN signal |-> Abort(signal[id])]
  /\ abortController' = Undefined
  /\ total' = UndefinedNumber
  /\ completed' = UndefinedNumber
  /\ queuedTasks' = <<>>
  /\ workers' = [id \in DOMAIN workers |-> ResetWorker(workers[id])]
  /\ workerUpdates' = [id \in 1..concurrency |-> Emit(id, workers'[id])]
  /\ queueUpdates' = <<>>
  /\ progressUpdates' = <<>>
  /\ UNCHANGED concurrency
  /\ UNCHANGED <<runVars, schedVars, envVars>>
  /\ UNCHANGED <<pc, assigned, childGuides, outcome>>
  /\ cancelled' = (cancelled \/ Running)
  /\ trackedAtReset' = IF Running THEN trackedAtReset \cup createdFiles ELSE trackedAtReset
  /\ inFlightAtReset' =
       IF Running
         THEN inFlightAtReset
                \cup { id \in DOMAIN pc : pc[id] \in {"polling", "acquired", "generating"} }
         ELSE inFlightAtReset
  /\ UNCHANGED <<readyOrder, startOrder>>
  /\ UNCHANGED libVars

----------------------------------------------------------------------------
(* The database used on its own: rows are saved, by this run and by another, and
   getChildStyleGuides is called *)

\* /A/b and /ab, next to the directories of the units
DirUpperAB == <<"/", "A", "/", "b">>
DirAb == <<"/", "a", "b">>

DbDirectories == {DirA, DirAB, DirABC, DirAu, DirAxC, DirUpperAB, DirAb}
DbLanguages == {"ts", "py"}

\* saveStyleGuide(language, content, directory) of a DB whose runId is runId: the
\* row is inserted unless the run has one for the language and directory
DbSaveStyleGuide(runId, language, directory) ==
  /\ Cardinality(db) < MaxRows
  /\ db' = db \cup {<<runId, language, directory>>}
  /\ UNCHANGED <<procVars, runVars, schedVars, taskVars, cbVars, histVars>>
  /\ UNCHANGED <<renamePending, unlinkPending, unlinkCalled, unlinkFailed, renameFailed,
                 fs, outputFiles, handlers>>
  /\ UNCHANGED libVars

\* getChildStyleGuides(parentDirectory, language) of the DB whose runId is RunId
DbGetChildStyleGuides(parentDirectory, language) ==
  /\ lastQuery' = {[parentDirectory |-> parentDirectory, language |-> language,
                    rows |-> ImmediateChildren(db, RunId, parentDirectory, language)]}
  /\ UNCHANGED <<procVars, runVars, schedVars, taskVars, envVars, cbVars, histVars>>
  /\ UNCHANGED <<isShuttingDown, invoked, cleanupCalls, handlerResult, cleanupPromises,
                 unregistered>>
  /\ UNCHANGED <<handlerUnlinks, handlerPromise, fileGroups, sortedGroups>>

DbNext ==
  \/ \E runId \in {RunId, OtherRunId}, language \in DbLanguages,
        directory \in DbDirectories : DbSaveStyleGuide(runId, language, directory)
  \/ \E parentDirectory \in DbDirectories, language \in DbLanguages :
        DbGetChildStyleGuides(parentDirectory, language)

DbSpec == Init /\ [][DbNext]_vars

----------------------------------------------------------------------------
(* The cleanup registry used on its own (CleanupRegistry) *)

\* register(handler): the handler joins the Set, and its unregister function is
\* returned
RegistryRegister(handler) ==
  /\ handlers' = handlers \cup {handler}
  /\ unregistered' = unregistered \ {handler}
  /\ UNCHANGED <<procVars, runVars, schedVars, taskVars, cbVars, histVars>>
  /\ UNCHANGED <<renamePending, unlinkPending, unlinkCalled, unlinkFailed, renameFailed,
                 fs, outputFiles, db>>
  /\ UNCHANGED <<isShuttingDown, invoked, cleanupCalls, lastQuery, handlerResult,
                 cleanupPromises>>
  /\ UNCHANGED <<handlerUnlinks, handlerPromise, fileGroups, sortedGroups>>

\* mutant: the unregister function clears the Set
DeleteAll(set, handler) == {}

\* this.handlers.delete(handler)
Delete(set, handler) == set \ {handler}

\* the function register(handler) returned is called
RegistryUnregister(handler) ==
  /\ handler \in handlers \cup unregistered
  /\ handlers' = Delete(handlers, handler)
  /\ unregistered' = unregistered \cup {handler}
  /\ UNCHANGED <<procVars, runVars, schedVars, taskVars, cbVars, histVars>>
  /\ UNCHANGED <<renamePending, unlinkPending, unlinkCalled, unlinkFailed, renameFailed,
                 fs, outputFiles, db>>
  /\ UNCHANGED <<isShuttingDown, invoked, cleanupCalls, lastQuery, handlerResult,
                 cleanupPromises>>
  /\ UNCHANGED <<handlerUnlinks, handlerPromise, fileGroups, sortedGroups>>

\* mutant: cleanup() does not look at isShuttingDown
NeverShuttingDown == FALSE

\* if (this.isShuttingDown) return
AlreadyShuttingDown == isShuttingDown

\* what a handler does when it is called: it returns, it throws, or it returns a
\* promise
HandlerBehaviours == {"returns", "throws", "promise"}

\* mutant: the call of a handler is not in a try block
HandlerErrorThrown == FALSE

\* try { handler() } catch (error) { console.error(...) }
HandlerErrorCaught == TRUE

\* the for loop of cleanup() over the handlers, in the order the Set gives them:
\* what each handler called did, and whether an exception left the loop
RECURSIVE CleanupLoop(_, _, _, _)
CleanupLoop(order, behaviour, k, result) ==
  IF k > Len(order) THEN [result |-> result, threw |-> FALSE]
  ELSE LET handler == order[k]
       IN IF behaviour[handler] = "throws"
            THEN IF HandlerErrorCaught
                   THEN CleanupLoop(order, behaviour, k + 1,
                                    [result EXCEPT ![handler] = "threw"])
                   ELSE [result |-> [result EXCEPT ![handler] = "threw"], threw |-> TRUE]
          ELSE CleanupLoop(order, behaviour, k + 1,
                           [result EXCEPT ![handler] =
                              IF behaviour[handler] = "promise" THEN "pending"
                                                                ELSE "returned"])

\* the orders in which a Set holding these handlers may give them: the order they
\* were added in
Orders(set) ==
  { order \in [1..Cardinality(set) -> set] :
      \A i, j \in DOMAIN order : i # j => order[i] # order[j] }

\* await Promise.all(promises): cleanup() waits while a promise is pending
PromiseAll(result) ==
  IF \E handler \in DOMAIN result : result[handler] = "pending"
    THEN "pending" ELSE "fulfilled"

\* cleanup(): every handler of the Set is called, up to await Promise.all(promises)
\* and, when no promise is pending, to its end
RegistryCleanup ==
  /\ cleanupCalls < MaxCleanupCalls
  /\ cleanupCalls' = cleanupCalls + 1
  /\ IF AlreadyShuttingDown
       THEN /\ cleanupPromises' = Append(cleanupPromises, "fulfilled")
            /\ UNCHANGED <<isShuttingDown, invoked, handlerResult>>
       ELSE /\ isShuttingDown' = TRUE
            /\ \E order \in Orders(handlers), behaviour \in [handlers -> HandlerBehaviours] :
                 LET loop == CleanupLoop(order, behaviour, 1,
                                         [handler \in RegistryHandlers |-> "none"])
                 IN /\ handlerResult' = loop.result
                    /\ invoked' = [handler \in RegistryHandlers |->
                                     IF loop.result[handler] # "none"
                                       THEN invoked[handler] + 1 ELSE invoked[handler]]
                    /\ cleanupPromises' =
                         Append(cleanupPromises,
                                IF loop.threw THEN "rejected" ELSE PromiseAll(loop.result))
  /\ UNCHANGED <<procVars, runVars, schedVars, taskVars, envVars, cbVars, histVars>>
  /\ UNCHANGED <<lastQuery, unregistered>>
  /\ UNCHANGED <<handlerUnlinks, handlerPromise, fileGroups, sortedGroups>>

\* result.catch(console.error): the promise cleanup() waits for is fulfilled whether
\* the handler's promise is fulfilled or rejected
CatchLogged(settled) == "fulfilled"

\* the promise a handler returned settles; cleanup() returns when it was the last
RegistryHandlerSettles(handler, settled) ==
  /\ handlerResult[handler] = "pending"
  /\ handlerResult' = [handlerResult EXCEPT ![handler] = settled]
  /\ cleanupPromises' =
       [k \in DOMAIN cleanupPromises |->
          IF cleanupPromises[k] # "pending" THEN cleanupPromises[k]
          ELSE IF CatchLogged(settled) = "rejected" THEN "rejected"
          ELSE PromiseAll(handlerResult')]
  /\ UNCHANGED <<procVars, runVars, schedVars, taskVars, envVars, cbVars, histVars>>
  /\ UNCHANGED <<isShuttingDown, invoked, cleanupCalls, lastQuery, unregistered>>
  /\ UNCHANGED <<handlerUnlinks, handlerPromise, fileGroups, sortedGroups>>

\* reset()
RegistryReset ==
  /\ handlers' = {}
  /\ isShuttingDown' = FALSE
  /\ invoked' = [handler \in RegistryHandlers |-> 0]
  /\ cleanupCalls' = 0
  /\ handlerResult' = [handler \in RegistryHandlers |-> "none"]
  /\ cleanupPromises' = <<>>
  /\ UNCHANGED <<procVars, runVars, schedVars, taskVars, cbVars, histVars>>
  /\ UNCHANGED <<renamePending, unlinkPending, unlinkCalled, unlinkFailed, renameFailed,
                 fs, outputFiles, db>>
  /\ UNCHANGED <<lastQuery, unregistered>>
  /\ UNCHANGED <<handlerUnlinks, handlerPromise, fileGroups, sortedGroups>>

RegistryNext ==
  \/ \E handler \in RegistryHandlers : RegistryRegister(handler)
  \/ \E handler \in RegistryHandlers : RegistryUnregister(handler)
  \/ RegistryCleanup
  \/ \E handler \in RegistryHandlers, settled \in {"fulfilled", "rejected"} :
        RegistryHandlerSettles(handler, settled)
  \/ RegistryReset

RegistrySpec == Init /\ [][RegistryNext]_vars

----------------------------------------------------------------------------
(* The scheduler on its own: one run() of up to MaxSchedUnits units, from the call
   to the end of runTasks, with no reset() *)

SchedGroupSeqs ==
  { gs \in UNION { [1..n -> AllGroups] : n \in 0..MaxSchedUnits } :
      /\ \A i, j \in DOMAIN gs : i # j => gs[i] # gs[j]
      /\ \A i, j, k \in DOMAIN gs :
           (i < j /\ j < k /\ gs[i].language = gs[k].language)
             => gs[j].language = gs[i].language }

SchedNext ==
  \/ \E gs \in SchedGroupSeqs : Run(gs)
  \/ MkdirOk
  \/ \E id \in DOMAIN pc : BeginTask(id)
  \/ \E id \in DOMAIN pc : GenReturn(id)
  \/ \E id \in DOMAIN pc, wrote \in BOOLEAN : GenThrow(id, wrote)
  \/ \E id \in DOMAIN pc : FinishJob(id)
  \/ \E id \in DOMAIN pc : PQueueNext(id)
  \/ Promote

SchedSpec == Init /\ [][SchedNext]_vars

----------------------------------------------------------------------------
(* toposort on its own *)

\* the arrays of groups of one language, in any order, no two of one directory
GroupArrays(language, directories, n) ==
  { gs \in UNION { [1..k -> [language : {language}, directory : directories, files : {1}]] :
                    k \in 0..n } :
      \A i, j \in DOMAIN gs : i # j => gs[i].directory # gs[j].directory }

\* the Maps toposort is called with: the explorer's groups of one or two languages
ToposortInputs ==
  LET ts == GroupArrays("ts", {DirRoot, DirA, DirAB, DirABC, DirAD, DirAu}, MaxSortGroups)
      py == GroupArrays("py", {DirA, DirAB}, 2)
  IN { [language \in {"ts"} |-> gs] : gs \in ts }
       \cup { [language \in {"ts", "py"} |-> IF language = "ts" THEN a ELSE b] :
                a \in ts, b \in py }

\* the explorer calls toposort once, with the groups it has built
CallToposort(fg) ==
  /\ DOMAIN fileGroups = {}
  /\ fileGroups' = fg
  /\ sortedGroups' = Toposort(fg)
  /\ UNCHANGED <<procVars, runVars, schedVars, taskVars, envVars, cbVars, histVars>>
  /\ UNCHANGED <<isShuttingDown, invoked, cleanupCalls, lastQuery, handlerResult,
                 cleanupPromises, unregistered, handlerUnlinks, handlerPromise>>

ToposortNext == \E fg \in ToposortInputs : CallToposort(fg)

ToposortSpec == Init /\ [][ToposortNext]_vars

----------------------------------------------------------------------------
(* The run with its file-cleanup handler (createFileCleanupHandler(createdFiles)) *)

\* the handler is called while it is registered, as cleanup() does once: unlink is
\* called with every file of the Set, and the handler waits for all of them
FileCleanup ==
  /\ FileCleanupHandler \in handlers
  /\ handlerPromise = "none"
  /\ handlerUnlinks' = [path \in createdFiles |-> "pending"]
  /\ handlerPromise' = "pending"
  /\ workerUpdates' = <<>>
  /\ queueUpdates' = <<>>
  /\ progressUpdates' = <<>>
  /\ UNCHANGED <<procVars, runVars, schedVars, taskVars, envVars, histVars>>
  /\ UNCHANGED <<isShuttingDown, invoked, cleanupCalls, lastQuery, handlerResult,
                 cleanupPromises, unregistered, fileGroups, sortedGroups>>

\* an unlink of the handler resolves
HandlerUnlinkOk(path) ==
  /\ path \in DOMAIN handlerUnlinks
  /\ handlerUnlinks[path] = "pending"
  /\ path \in fs
  /\ fs' = fs \ {path}
  /\ handlerUnlinks' = [handlerUnlinks EXCEPT ![path] = "removed"]
  /\ workerUpdates' = <<>>
  /\ queueUpdates' = <<>>
  /\ progressUpdates' = <<>>
  /\ UNCHANGED <<procVars, runVars, schedVars, taskVars, histVars>>
  /\ UNCHANGED <<renamePending, unlinkPending, unlinkCalled, unlinkFailed, renameFailed,
                 outputFiles, db, handlers>>
  /\ UNCHANGED <<isShuttingDown, invoked, cleanupCalls, lastQuery, handlerResult,
                 cleanupPromises, unregistered, handlerPromise, fileGroups,
                 sortedGroups>>

\* the error codes unlink rejects with: the file is not there, or another error
UnlinkErrorCodes == {"ENOENT", "EPERM"}

\* the catch callback of an unlink: ENOENT is ignored, another error is logged
HandlerCatch(code) == IF code # "ENOENT" THEN "logged" ELSE "missing"

\* an unlink of the handler rejects
HandlerUnlinkFail(path, code) ==
  /\ path \in DOMAIN handlerUnlinks
  /\ handlerUnlinks[path] = "pending"
  /\ code = "ENOENT" => path \notin fs
  /\ handlerUnlinks' = [handlerUnlinks EXCEPT ![path] = HandlerCatch(code)]
  /\ workerUpdates' = <<>>
  /\ queueUpdates' = <<>>
  /\ progressUpdates' = <<>>
  /\ UNCHANGED <<procVars, runVars, schedVars, taskVars, envVars, histVars>>
  /\ UNCHANGED <<isShuttingDown, invoked, cleanupCalls, lastQuery, handlerResult,
                 cleanupPromises, unregistered, handlerPromise, fileGroups,
                 sortedGroups>>

\* unlink(file).catch(...): the promise the handler waits for is fulfilled when the
\* unlink has settled, whether it resolved or rejected
CaughtPromise(status) == IF status = "pending" THEN "pending" ELSE "fulfilled"

\* await Promise.all(promises) of the handler: every unlink has settled
HandlerSettle ==
  /\ handlerPromise = "pending"
  /\ \A path \in DOMAIN handlerUnlinks : CaughtPromise(handlerUnlinks[path]) # "pending"
  /\ handlerPromise' =
       IF \A path \in DOMAIN handlerUnlinks : CaughtPromise(handlerUnlinks[path]) = "fulfilled"
         THEN "fulfilled" ELSE "rejected"
  /\ workerUpdates' = <<>>
  /\ queueUpdates' = <<>>
  /\ progressUpdates' = <<>>
  /\ UNCHANGED <<procVars, runVars, schedVars, taskVars, envVars, histVars>>
  /\ UNCHANGED <<isShuttingDown, invoked, cleanupCalls, lastQuery, handlerResult,
                 cleanupPromises, unregistered, handlerUnlinks, fileGroups,
                 sortedGroups>>

CleanupNext ==
  \/ \E gs \in GroupSeqs : Run(gs)
  \/ MkdirOk
  \/ \E id \in DOMAIN pc : BeginTask(id)
  \/ \E id \in DOMAIN pc : GenReturn(id)
  \/ \E id \in DOMAIN pc, wrote \in BOOLEAN : GenThrow(id, wrote)
  \/ \E id \in DOMAIN pc : FinishJob(id)
  \/ \E id \in DOMAIN pc : PQueueNext(id)
  \/ Promote
  \/ \E language \in renamePending : RenameOk(language)
  \/ \E language \in renamePending : RenameFail(language)
  \/ Finish
  \/ \E path \in unlinkPending : UnlinkOk(path)
  \/ \E path \in unlinkPending : UnlinkFail(path)
  \/ Settle
  \/ FileCleanup
  \/ \E path \in DOMAIN handlerUnlinks : HandlerUnlinkOk(path)
  \/ \E path \in DOMAIN handlerUnlinks, code \in UnlinkErrorCodes :
        HandlerUnlinkFail(path, code)
  \/ HandlerSettle

CleanupSpec == Init /\ [][CleanupNext]_vars

----------------------------------------------------------------------------
(* The run in a process whose other modules have registered cleanup handlers *)

\* the handlers of other modules
OtherHandlers == RegistryHandlers \ {FileCleanupHandler}

RunRegistryNext ==
  \/ \E handler \in OtherHandlers : phase = "none" /\ RegistryRegister(handler)
  \/ \E gs \in GroupSeqs : Run(gs)
  \/ MkdirOk
  \/ MkdirFail
  \/ \E id \in DOMAIN pc : BeginTask(id)
  \/ \E id \in DOMAIN pc : GenReturn(id)
  \/ \E id \in DOMAIN pc, wrote \in BOOLEAN : GenThrow(id, wrote)
  \/ \E id \in DOMAIN pc : FinishJob(id)
  \/ \E id \in DOMAIN pc : PQueueNext(id)
  \/ Promote
  \/ \E language \in renamePending : RenameOk(language)
  \/ \E language \in renamePending : RenameFail(language)
  \/ Finish
  \/ \E path \in unlinkPending : UnlinkOk(path)
  \/ \E path \in unlinkPending : UnlinkFail(path)
  \/ Settle

RunRegistrySpec == Init /\ [][RunRegistryNext]_vars

----------------------------------------------------------------------------

Next ==
  \/ \E gs \in GroupSeqs : Run(gs)
  \/ MkdirOk
  \/ MkdirFail
  \/ \E id \in DOMAIN pc : BeginTask(id)
  \/ \E id \in DOMAIN pc : GenProgress(id)
  \/ \E id \in DOMAIN pc : GenReturn(id)
  \/ \E id \in DOMAIN pc, wrote \in BOOLEAN : GenThrow(id, wrote)
  \/ \E id \in DOMAIN pc : FinishJob(id)
  \/ \E id \in DOMAIN pc : PQueueNext(id)
  \/ Promote
  \/ \E language \in renamePending : RenameOk(language)
  \/ \E language \in renamePending : RenameFail(language)
  \/ Finish
  \/ \E path \in unlinkPending : UnlinkOk(path)
  \/ \E path \in unlinkPending : UnlinkFail(path)
  \/ Settle
  \/ Reset

Spec == Init /\ [][Next]_vars

\* the steps the event loop and the environment take by themselves: every one but
\* the calls of run() and reset() and the Generator's progress lines
Progress ==
  \/ MkdirFail
  \/ MkdirOk
  \/ \E id \in DOMAIN pc : BeginTask(id)
  \/ \E id \in DOMAIN pc : GenReturn(id)
  \/ \E id \in DOMAIN pc, wrote \in BOOLEAN : GenThrow(id, wrote)
  \/ \E id \in DOMAIN pc : FinishJob(id)
  \/ \E id \in DOMAIN pc : PQueueNext(id)
  \/ Promote
  \/ \E language \in renamePending : RenameOk(language)
  \/ \E language \in renamePending : RenameFail(language)
  \/ Finish
  \/ \E path \in unlinkPending : UnlinkOk(path)
  \/ \E path \in unlinkPending : UnlinkFail(path)
  \/ Settle

\* every continuation is run, and every Generator invocation, mkdir, rename and
\* unlink eventually returns or throws
FairSpec == Spec /\ WF_vars(Progress)

----------------------------------------------------------------------------
(* Vocabulary of the properties *)

Units == Range(groups)

\* the languages of the units
Languages == { g.language : g \in Units }

\* the unit whose artifact is path
UnitOf(path) == CHOOSE g \in Units : StyleFilePath(g) = path

\* run() has settled: its promise is resolved or rejected
Settled == phase \in {"resolved", "rejected"}

\* directory p is a strict ancestor of directory c
Ancestor(p, c) ==
  /\ Len(p) < Len(c)
  /\ \A i \in 1..Len(p) : c[i] = p[i]
  /\ c[Len(p) + 1] = "/"

\* p is the closest same-language ancestor of g among the units
ClosestAncestor(g, p) ==
  /\ g.language = p.language
  /\ Ancestor(p.directory, g.directory)
  /\ \A m \in Units :
       (m.language = g.language /\ Ancestor(m.directory, g.directory))
         => ~ Ancestor(p.directory, m.directory)

\* the unit's task was invoked / has returned or thrown
Started(id) == id \in DOMAIN pc /\ pc[id] \notin {"waiting", "ready"}
Completed(id) == id \in DOMAIN pc /\ pc[id] \in {"settled", "finishing", "done"}

\* units whose task was invoked and has not completed
InFlight == { id \in DOMAIN pc : pc[id] \in {"polling", "acquired", "generating"} }

Succeeded(g) == GetTaskId(g) \in DOMAIN outcome /\ outcome[GetTaskId(g)] = "success"
Failed(g) == GetTaskId(g) \in DOMAIN outcome /\ outcome[GetTaskId(g)] = "error"

\* every artifact path registered during the run
Registered == UNION { Range(createdStyleGuides[l]) : l \in DOMAIN createdStyleGuides }

\* the paths of a language that were moved into the output directory
MovedOf(l) ==
  IF l \in DOMAIN createdStyleGuides THEN Range(createdStyleGuides[l]) \ createdFiles ELSE {}

----------------------------------------------------------------------------
(* C1: for every dependency edge (child, parent), the parent being the closest
   same-language ancestor of the child among the units, the parent does not start
   before the child's job has completed, with success or with failure. *)
C1_ChildBeforeParent ==
  \A g \in Units, p \in Units :
    (ClosestAncestor(g, p) /\ Started(GetTaskId(p)))
      => (Completed(GetTaskId(g)) /\ GetTaskId(g) \in completedTasks)

\* a parent is generating after its child failed, with two worker slots
C1_Witness ==
  \E g \in Units, p \in Units :
    /\ ClosestAncestor(g, p)
    /\ concurrency = 2
    /\ Started(GetTaskId(p))
    /\ pc[GetTaskId(p)] = "generating"
    /\ Failed(g)

(* C2: never more than concurrency units in flight: the units whose task was
   invoked and has not completed (those holding a worker among them), and the
   workers in status working. *)
C2_ConcurrencyBound ==
  /\ Cardinality(InFlight) <= concurrency
  /\ Cardinality({ id \in DOMAIN pc : assigned[id] # 0 }) <= concurrency
  /\ Cardinality({ w \in DOMAIN workers : workers[w].status = "working" }) <= concurrency

\* the only slot is taken while another unit is ready
C2_Witness ==
  /\ concurrency = 1
  /\ Cardinality(InFlight) = 1
  /\ readyQueue # <<>>
  /\ \E w \in DOMAIN workers : workers[w].status = "working"

(* C3: once the scheduler runs, and every Generator invocation eventually returns
   or throws, every unit is eventually started and completed and run() eventually
   resolves, whichever units fail: a failed child still unlocks its parent. *)
C3_EventuallyResolves ==
  (phase = "running") ~> (phase = "resolved" /\ \A id \in DOMAIN pc : pc[id] = "done")

\* run() has resolved, and a parent ran to its end after its child failed
C3_Witness ==
  /\ phase = "resolved"
  /\ \E g \in Units, p \in Units :
       ClosestAncestor(g, p) /\ Failed(g) /\ pc[GetTaskId(p)] = "done"

\* the message the Generator of id throws
ThrownMessage(id) == IF signal[id] = "aborted" THEN ErrCancelled ELSE ErrFailed

(* C4: run() never rejects because Generator invocations threw: a run that rejects
   has no failed unit, and the step in which a unit fails leaves run() where it is
   and reports the worker that ran the unit with status error, the unit's language
   and directory and the message thrown. *)
C4_FailuresCaptured ==
  /\ [](phase = "rejected" => \A id \in DOMAIN outcome : outcome[id] # "error")
  /\ [][\A id \in DOMAIN outcome :
          (outcome[id] = "none" /\ outcome'[id] = "error")
            => /\ phase' = phase
               /\ Len(workerUpdates') >= 1
               /\ workerUpdates'[1].id = assigned[id]
               /\ workerUpdates'[1].status = "error"
               /\ workerUpdates'[1].language = GroupOf(id).language
               /\ workerUpdates'[1].directory = GroupOf(id).directory
               /\ workerUpdates'[1].error = ThrownMessage(id)]_vars

\* a unit has just failed: its worker was reported with status error
C4_Witness ==
  /\ phase = "running"
  /\ \E id \in DOMAIN outcome : outcome[id] = "error" /\ pc[id] = "settled"
  /\ workerUpdates # <<>>
  /\ workerUpdates[1].status = "error"
  /\ workerUpdates[1].error = ErrFailed

(* C5: when run() resolves, every unit was attempted and has completed, nothing is
   in flight, ready or waiting, and every registered artifact has its final
   disposition: moved into the output directory, or unlink called on it, and every
   rename and unlink has settled. *)
C5_ResolvedMeansDone ==
  phase = "resolved" =>
    /\ \A g \in Units : GetTaskId(g) \in DOMAIN pc /\ pc[GetTaskId(g)] = "done"
                        /\ outcome[GetTaskId(g)] \in {"success", "error"}
    /\ InFlight = {}
    /\ readyQueue = <<>> /\ pqQueue = <<>> /\ pqPending = 0
    /\ \A id \in DOMAIN inDeg : inDeg[id] = 0
    /\ renamePending = {} /\ unlinkPending = {}
    /\ \A path \in Registered :
         \/ \E l \in DOMAIN outputFiles : outputFiles[l] = path /\ path \in MovedOf(l)
         \/ path \in unlinkCalled

\* resolved after two units succeeded: one artifact moved, the other deleted
C5_Witness ==
  /\ phase = "resolved"
  /\ Cardinality(Units) = 2
  /\ \E path \in Registered : path \in unlinkCalled /\ path \notin fs
  /\ \E path \in Registered : \E l \in DOMAIN outputFiles : outputFiles[l] = path

(* C6 as stated: after a run settles, no registered artifact path still exists at
   its source location.  An unlink that rejects is ignored by run(), and the file
   stays. *)
C6_NoRegisteredPathRemains ==
  Settled => Registered \cap fs = {}

(* C6: after a run settles, every registered artifact was moved into the output
   directory, or unlink was called on it; one that still exists at its source
   location is one whose unlink rejected. *)
C6_RegisteredMovedOrUnlinkCalled ==
  Settled =>
    \A path \in Registered :
      \/ /\ path \notin fs
         /\ \E l \in DOMAIN outputFiles : outputFiles[l] = path
      \/ /\ path \in unlinkCalled
         /\ path \in fs <=> path \in unlinkFailed

\* resolved with one artifact moved and one whose unlink rejected, still in place
C6_Witness ==
  /\ phase = "resolved"
  /\ \E path \in Registered : path \in unlinkFailed /\ path \in fs
  /\ \E path \in Registered : \E l \in DOMAIN outputFiles : outputFiles[l] = path

(* C7 as stated: per language at most one artifact is moved into the output
   directory, exactly one when a unit of the language succeeded, and none only if
   every unit of the language failed.  A rename that rejects is logged, and the
   language has no output file although a unit succeeded. *)
C7_OnePromotedIfAnySucceeded ==
  phase = "resolved" =>
    \A l \in Languages :
      /\ Cardinality(MovedOf(l)) <= 1
      /\ (\E g \in Units : g.language = l /\ Succeeded(g)) => Cardinality(MovedOf(l)) = 1
      /\ MovedOf(l) = {} => \A g \in Units : g.language = l => Failed(g)

(* C7: per language at most one artifact is ever moved into the output directory;
   after the run settles exactly one is moved when a unit of the language succeeded
   and the rename of the language did not reject, and none otherwise. *)
C7_AtMostOnePromoted ==
  \A l \in Languages :
    /\ Cardinality(MovedOf(l)) <= 1
    /\ l \in DOMAIN outputFiles <=> MovedOf(l) # {}
    /\ Settled =>
         (Cardinality(MovedOf(l)) = 1
            <=> /\ \E g \in Units : g.language = l /\ Succeeded(g)
                /\ l \notin renameFailed)

\* resolved: one language has its output file, the rename of another rejected
C7_Witness ==
  /\ phase = "resolved"
  /\ \E l \in Languages : Cardinality(MovedOf(l)) = 1 /\ outputFiles[l] \in MovedOf(l)
  /\ \E l \in Languages :
       /\ l \in renameFailed
       /\ MovedOf(l) = {}
       /\ \E g \in Units : g.language = l /\ Succeeded(g)

(* C8 as stated: the promoted artifact of a language is the one of its topologically
   last unit, the unit nearest the root: no unit of the language lies above the
   promoted unit.  When the unit nearest the root fails, the artifact of a unit
   below it is promoted. *)
C8_PromotedIsNearestRoot ==
  Settled =>
    \A l \in DOMAIN outputFiles :
      \A m \in Units :
        m.language = l => ~ Ancestor(m.directory, UnitOf(outputFiles[l]).directory)

(* C8: the promoted artifact of a language is the last one registered for it, the
   artifact of the unit of the language that was the last to succeed; no unit of
   the language that succeeded lies above the promoted unit. *)
C8_PromotedIsLastRegistered ==
  \A l \in DOMAIN outputFiles :
    /\ l \in DOMAIN createdStyleGuides
    /\ outputFiles[l] = createdStyleGuides[l][Len(createdStyleGuides[l])]
    /\ UnitOf(outputFiles[l]).language = l
    /\ Succeeded(UnitOf(outputFiles[l]))
    /\ \A m \in Units :
         (m.language = l /\ Succeeded(m))
           => ~ Ancestor(m.directory, UnitOf(outputFiles[l]).directory)

\* resolved: the unit nearest the root failed, the artifact of its child is promoted
C8_Witness ==
  /\ phase = "resolved"
  /\ \E l \in DOMAIN outputFiles :
       \E m \in Units :
         /\ m.language = l
         /\ Failed(m)
         /\ Ancestor(m.directory, UnitOf(outputFiles[l]).directory)

(* C9: when run() resolves, the returned map has a language exactly when a unit of
   the language succeeded: a language whose units all failed is absent, and a
   language with a successful unit is present whatever happened to the others. *)
C9_ResultsAreSucceededLanguages ==
  phase = "resolved" =>
    /\ results \subseteq Languages
    /\ \A l \in Languages :
         l \in results <=> \E g \in Units : g.language = l /\ Succeeded(g)

\* resolved: one language failed and is absent, the other succeeded and is present
C9_Witness ==
  /\ phase = "resolved"
  /\ \E l \in Languages :
       /\ l \notin results
       /\ \A g \in Units : g.language = l => Failed(g)
  /\ \E l \in Languages : l \in results

(* C10 as stated: after a run settles, no artifact file of a unit whose Generator
   invocation failed remains in the unit's directory.  The artifact of a failed
   unit is not registered, so run() never deletes a file the Generator wrote
   before it failed. *)
C10_FailedUnitLeavesNoFile ==
  Settled => \A g \in Units : Failed(g) => StyleFilePath(g) \notin fs

\* the path rename() was called with for a language
RenameSource(l) == createdStyleGuides[l][Len(createdStyleGuides[l])]

(* C11 as stated: when the rename of a language's artifact rejected, the source
   artifact is deleted during cleanup.  The unlink of cleanup may reject as well,
   and run() ignores it. *)
C11_RenameFailedSourceDeleted ==
  Settled => \A l \in renameFailed : RenameSource(l) \notin fs

(* C11: when the rename of a language's artifact rejected, the language gets no
   output file and its rename is never started again, the source path stays in the
   cleanup set and unlink is called on it in the finally block, and run() resolves;
   the source file is left only if that unlink rejected too. *)
C11_RenameFailedSourceUnlinked ==
  /\ [](\A l \in renameFailed :
          /\ l \notin DOMAIN outputFiles
          /\ RenameSource(l) \in createdFiles
          /\ phase \in {"cleaning", "resolved"} => RenameSource(l) \in unlinkCalled
          /\ phase # "rejected"
          /\ phase = "resolved" =>
               (RenameSource(l) \in fs <=> RenameSource(l) \in unlinkFailed))
  /\ [][\A l \in renameFailed : l \notin renamePending' /\ l \in renameFailed']_vars

\* resolved after a rename rejected: unlink was called on the source, which is gone
C11_Witness ==
  /\ phase = "resolved"
  /\ \E l \in renameFailed :
       /\ RenameSource(l) \in unlinkCalled
       /\ RenameSource(l) \notin fs
       /\ l \notin DOMAIN outputFiles

(* C12 as stated: a language whose rename into the output directory rejected is
   absent from the map run() returns.  The map is built from the keys of
   createdStyleGuides, which a rejected rename does not touch. *)
C12_RenameFailedLanguageAbsent ==
  phase = "resolved" => \A l \in renameFailed : l \notin results

(* C13: the step in which a unit completes, with success or with failure, adds the
   unit's number of files to completed (undefined counting as 0) and passes the new
   value to onProgress; while a run that reset() did not interrupt is under way,
   completed never decreases and never exceeds total, and when the run has
   resolved completed equals total, the number of files of all units. *)
C13_ProgressCounts ==
  /\ [][\A id \in DOMAIN pc :
          (pc[id] = "generating" /\ pc'[id] = "settled")
            => /\ completed' = (IF completed = UndefinedNumber THEN 0 ELSE completed)
                                 + GroupOf(id).files
               /\ progressUpdates' = <<completed'>>]_vars
  /\ [][(Running /\ ~ cancelled')
          => /\ completed' >= completed
             /\ completed' <= total'
             /\ \A k \in DOMAIN progressUpdates' : progressUpdates'[k] = completed']_vars
  /\ []((phase = "resolved" /\ ~ cancelled /\ total # UndefinedNumber)
          => completed = total /\ total = SumFiles(groups, 1))

\* a run without reset() has resolved after a unit of two files and a unit of one
\* file completed, one of them with a failure
C13_Witness ==
  /\ phase = "resolved"
  /\ ~ cancelled
  /\ completed = 3
  /\ total = 3
  /\ \E g \in Units : Failed(g) /\ g.files = 2
  /\ \E g \in Units : Succeeded(g)

(* C14 as stated: once reset() was called during a run, no unit that had not started
   is dispatched: no worker goes to status working any more.  reset() sets every
   worker idle, so a worker that is working in a cancelled run was given a unit
   after the cancellation.  runTasks never looks at the abort signal, and goes on
   starting the units that become ready. *)
C14_NoDispatchAfterCancel ==
  (cancelled /\ Running) => \A w \in DOMAIN workers : workers[w].status # "working"

(* C15 as stated: when reset() was called during a run, every artifact tracked at
   that point is deleted before run() settles, the run going directly to cleanup.
   The run goes on to the renames instead: an artifact tracked when reset() was
   called can be moved into the output directory, and is then not deleted. *)
C15_CancelledTrackedDeleted ==
  (Settled /\ cancelled) =>
    \A path \in trackedAtReset :
      /\ path \in unlinkCalled
      /\ \A l \in DOMAIN outputFiles : outputFiles[l] # path

(* C16: a run during which reset() was called settles by resolving: once runTasks
   is under way the cancelled run always reaches resolved, whatever units were in
   flight, ready or waiting, and a cancelled run that rejects is one whose mkdir
   rejected, before any unit existed. *)
C16_CancelledRunResolves ==
  /\ []((cancelled /\ phase = "rejected") => DOMAIN pc = {})
  /\ (cancelled /\ phase \in {"running", "promoting", "cleaning"}) ~> (phase = "resolved")

\* a cancelled run has resolved: a unit failed, every unit is done
C16_Witness ==
  /\ phase = "resolved"
  /\ cancelled
  /\ Cardinality(Units) = 2
  /\ \E g \in Units : Failed(g)
  /\ \A id \in DOMAIN pc : pc[id] = "done"

\* the last step was reset(): every worker was passed to onWorkerUpdate, idle
JustReset ==
  workerUpdates = [id \in 1..concurrency |->
                     [id |-> id, status |-> "idle", language |-> Undefined,
                      directory |-> UndefinedPath, error |-> Undefined,
                      progress |-> Undefined]]

(* C17: reset() can be called in every state between two continuations of the
   run, before any run() included; it leaves every worker idle with no directory,
   language, error or progress, queuedTasks empty, total and completed undefined
   and no abort controller; a reset() that follows a reset() changes nothing. *)
C17_ResetIdempotent ==
  /\ [](Quiescent => ENABLED Reset)
  /\ [][Reset =>
          /\ \A w \in DOMAIN workers' :
               /\ workers'[w].status = "idle"
               /\ workers'[w].directory = UndefinedPath
               /\ workers'[w].language = Undefined
               /\ workers'[w].error = Undefined
               /\ workers'[w].progress = Undefined
          /\ queuedTasks' = <<>>
          /\ total' = UndefinedNumber
          /\ completed' = UndefinedNumber
          /\ abortController' = Undefined
          /\ JustReset']_vars
  /\ [][(JustReset /\ Reset) => UNCHANGED vars]_vars

\* reset() was just called during a run, with a unit in flight and a worker that
\* was working
C17_Witness ==
  /\ JustReset
  /\ phase = "running"
  /\ \E id \in DOMAIN signal : signal[id] = "aborted"
  /\ \A w \in DOMAIN workers : workers[w].status = "idle" /\ workers[w].directory = <<>>
  /\ queuedTasks = <<>>

\* directory c is directory p and one more segment; that segment
OneBelow(p, c) ==
  /\ Ancestor(p, c)
  /\ Len(c) > Len(p) + 1
  /\ \A i \in (Len(p) + 2)..Len(c) : c[i] # "/"

SegmentBelow(p, c) == SubSeq(c, Len(p) + 2, Len(c))

\* the units of p's language one segment below p
ChildUnits(p) ==
  { g \in Units : g.language = p.language /\ OneBelow(p.directory, g.directory) }

(* C18 as stated: the database being empty when the run starts, a unit whose task
   was invoked has every same-language unit one segment below it completed, and
   the child guides its Generator call is given are keyed by the segment names of
   exactly those of them that succeeded.  getChildStyleGuides selects with LIKE,
   where the _ of a directory name matches any character: the unit of /a_ is given
   the guide of /ax/c, keyed ../ax/c. *)
C18_ChildGuidesOfSucceededChildren ==
  \A p \in Units :
    /\ Started(GetTaskId(p)) => \A g \in ChildUnits(p) : Completed(GetTaskId(g))
    /\ (GetTaskId(p) \in DOMAIN pc /\ pc[GetTaskId(p)] = "generating")
         => childGuides[GetTaskId(p)] =
              { SegmentBelow(p.directory, g.directory) :
                  g \in { x \in ChildUnits(p) : Succeeded(x) } }

(* C19 as stated: getChildStyleGuides(parentDirectory, language) returns exactly
   the rows of the current run and of the language whose directory is
   parentDirectory and one more segment.  The SELECT compares with LIKE: _ in
   parentDirectory matches any character and letters match whatever their case, so
   rows of directories that are not under parentDirectory are returned. *)
C19_OnlyImmediateChildren ==
  \A q \in lastQuery :
    q.rows = { r \in db : /\ r[1] = RunId
                          /\ r[2] = q.language
                          /\ OneBelow(q.parentDirectory, r[3]) }

(* C20: since the last reset() of the registry, cleanup() has called no handler
   more than once, however many times cleanup() was called; while isShuttingDown
   stays set, that is from the first cleanup() to the next reset(), no step calls
   a handler. *)
C20_HandlersInvokedOnce ==
  /\ [](\A handler \in RegistryHandlers : invoked[handler] <= 1)
  /\ [](~ isShuttingDown => \A handler \in RegistryHandlers : invoked[handler] = 0)
  /\ [][(isShuttingDown /\ isShuttingDown') => invoked' = invoked]_vars

\* cleanup() was called three times: a registered handler was called once
C20_Witness ==
  /\ cleanupCalls = 3
  /\ isShuttingDown
  /\ \E handler \in handlers : invoked[handler] = 1
  /\ \E handler \in handlers : invoked[handler] = 0

(* C21: a handler whose unregister function was called is not in the Set of
   handlers, and no cleanup() calls it, until it is registered again; the call of
   the unregister function of one handler removes that handler and leaves every
   other registered handler registered. *)
C21_UnregisteredNotInvoked ==
  /\ [](\A handler \in unregistered : handler \notin handlers)
  /\ [][\A handler \in unregistered : invoked'[handler] <= invoked[handler]]_vars
  /\ [][\A handler \in RegistryHandlers :
          (handler \in unregistered' /\ handler \notin unregistered)
            => handlers' = handlers \ {handler}]_vars

\* cleanup() has called a registered handler and has not called the handler that
\* was unregistered before, which was registered with it
C21_Witness ==
  /\ isShuttingDown
  /\ \E handler \in unregistered : invoked[handler] = 0
  /\ \E handler \in handlers : invoked[handler] = 1
  /\ Cardinality(handlers) = 2

(* C22: a cleanup() call that finds isShuttingDown clear calls every handler of the
   Set, whichever of them throw or return a promise that rejects; the promise a
   cleanup() call returns never rejects, and it is pending only while the promise
   of a handler is pending. *)
C22_CleanupCallsEveryHandler ==
  /\ [][(~ isShuttingDown /\ isShuttingDown')
          => \A handler \in handlers :
               /\ handlerResult'[handler] \in {"returned", "threw", "pending"}
               /\ invoked'[handler] = invoked[handler] + 1]_vars
  /\ [](\A k \in DOMAIN cleanupPromises :
          /\ cleanupPromises[k] # "rejected"
          /\ cleanupPromises[k] = "pending"
               => \E handler \in RegistryHandlers : handlerResult[handler] = "pending")

\* cleanup() has resolved after it called three handlers: one threw, the promise of
\* one rejected, one returned
C22_Witness ==
  /\ cleanupPromises = <<"fulfilled">>
  /\ \E handler \in RegistryHandlers : handlerResult[handler] = "threw"
  /\ \E handler \in RegistryHandlers : handlerResult[handler] = "rejected"
  /\ \E handler \in RegistryHandlers : handlerResult[handler] = "returned"
  /\ \A handler \in RegistryHandlers : invoked[handler] = 1

\* units whose job holds one of p-queue's slots: in flight, or completed with the
\* end of the job still to run
Occupying == { id \in DOMAIN pc : pc[id] \in {"polling", "acquired", "generating",
                                                "settled", "finishing"} }

(* C23: the ready queue holds the jobs p-queue has not started, and a unit is in it
   only while every one of the concurrency slots is held, by a unit in flight or by
   a completed unit whose job is about to return and hand its slot over; a unit
   that becomes ready while a slot is free is started in the same step, and a unit
   that is started has its worker at once. *)
C23_WorkConserving ==
  /\ readyQueue = pqQueue
  /\ pqPending = Cardinality(Occupying)
  /\ readyQueue # <<>> => Cardinality(Occupying) = concurrency
  /\ Cardinality(InFlight) < concurrency
       => \/ readyQueue = <<>>
          \/ \E id \in DOMAIN pc : pc[id] \in {"settled", "finishing"}
  /\ \A id \in DOMAIN pc : pc[id] # "polling"

\* two units are generating at the same time, and a third is ready
C23_Witness ==
  /\ concurrency = 2
  /\ Cardinality({ id \in DOMAIN pc : pc[id] = "generating" }) = 2
  /\ Len(readyQueue) = 1

(* C24: units are started in the order in which they became ready: the ids in the
   order their jobs started are a prefix of the ids in the order enqueue() was
   called with them, the ready queue being the rest in that order, and a step that
   starts a unit of the ready queue starts its head. *)
C24_StartInReadyOrder ==
  /\ [](StartsWith(readyOrder, startOrder))
  /\ [](readyOrder = startOrder \o readyQueue)
  /\ [][(Len(startOrder') > Len(startOrder) /\ readyQueue # <<>>)
          => startOrder'[Len(startOrder) + 1] = Head(readyQueue)]_vars

\* three units without dependencies and one slot: the first two that became ready
\* were started, in that order, while the third is ready
C24_Witness ==
  /\ concurrency = 1
  /\ edges = <<>>
  /\ Len(readyOrder) = 3
  /\ Len(startOrder) = 2
  /\ readyQueue = <<readyOrder[3]>>

(* C25: in every state of a run, the pending dependency count of a unit is 0 exactly
   when the unit is in the ready queue or its job was started (it is in flight or
   completed); counts are never negative, and the count of a unit is the number of
   its children that have not completed. *)
C25_ZeroCountIffReadyOrStarted ==
  \A id \in DOMAIN inDeg :
    /\ inDeg[id] >= 0
    /\ inDeg[id] = 0 <=> ((\E k \in DOMAIN readyQueue : readyQueue[k] = id) \/ Started(id))
    /\ inDeg[id] = Cardinality({ k \in DOMAIN edges :
                                   edges[k][2] = id /\ edges[k][1] \notin completedTasks })

\* a unit with two children is in the ready queue and not started: both children
\* have completed and its count went from 2 to 0
C25_Witness ==
  \E id \in DOMAIN inDeg :
    /\ Cardinality({ k \in DOMAIN edges : edges[k][2] = id }) = 2
    /\ inDeg[id] = 0
    /\ readyQueue = <<id>>
    /\ ~ Started(id)

\* the entries of a snapshot for a task id
EntriesOf(snapshot, id) == { k \in DOMAIN snapshot : snapshot[k].id = id }

\* a snapshot lists exactly the units not started, each once, with its language and
\* directory: ready when its count is 0, waiting with its count otherwise
ExactSnapshot(snapshot, pcs, counts) ==
  /\ \A k \in DOMAIN snapshot : snapshot[k].id \in DOMAIN pcs
  /\ \A id \in DOMAIN pcs :
       IF pcs[id] \in {"waiting", "ready"}
         THEN /\ Cardinality(EntriesOf(snapshot, id)) = 1
              /\ \A k \in EntriesOf(snapshot, id) :
                   /\ snapshot[k].language = GroupOf(id).language
                   /\ snapshot[k].directory = GroupOf(id).directory
                   /\ snapshot[k].pendingDeps = counts[id]
                   /\ snapshot[k].status = IF counts[id] = 0 THEN "ready" ELSE "waiting"
         ELSE EntriesOf(snapshot, id) = {}

(* C26 as stated: every snapshot passed to onQueueUpdate is exact: no unit started
   before the step is listed, and every unit still not started after the step is
   listed exactly once, as ready with count 0 or as waiting with its count.  The
   roots are enqueued one after the other, each enqueue() passing snapshots before
   the next root is pushed: those snapshots leave out the roots still to be
   enqueued, which are not started and have count 0. *)
C26_EverySnapshotExact ==
  [][\A n \in DOMAIN queueUpdates' :
       LET snapshot == queueUpdates'[n]
       IN /\ \A id \in DOMAIN pc : Started(id) => EntriesOf(snapshot, id) = {}
          /\ \A id \in DOMAIN pc' :
               (phase' = "running" /\ pc'[id] \in {"waiting", "ready"})
                 => /\ Cardinality(EntriesOf(snapshot, id)) = 1
                    /\ \A k \in EntriesOf(snapshot, id) :
                         snapshot[k].status =
                           IF snapshot[k].pendingDeps = 0 THEN "ready" ELSE "waiting"
    ]_vars

(* C26: every step that enqueues a unit, starts one, or ends a job passes snapshots
   to onQueueUpdate, at least one for each unit enqueued and each unit started, and
   the last snapshot of the step is exact for the state the step leaves.  Each
   snapshot of the step lists no unit twice and no unit started before the step,
   lists as ready only units whose count is 0 after the step, and lists every unit
   whose count is > 0 after the step exactly once, as waiting with a count between
   its count after and before the step; a unit with count 0 that is not yet
   enqueued is in neither list. *)
C26_LastSnapshotExact ==
  [][/\ (readyOrder' # readyOrder \/ startOrder' # startOrder
           \/ completedTasks' # completedTasks \/ inDeg' # inDeg)
          => /\ queueUpdates' # <<>>
             /\ Len(queueUpdates') >= (Len(readyOrder') - Len(readyOrder))
                                        + (Len(startOrder') - Len(startOrder))
     /\ (queueUpdates' # <<>> /\ phase' = "running")
          => ExactSnapshot(queueUpdates'[Len(queueUpdates')], pc', inDeg')
     /\ \A n \in DOMAIN queueUpdates' :
          LET snapshot == queueUpdates'[n]
          IN /\ \A i, j \in DOMAIN snapshot : snapshot[i].id = snapshot[j].id => i = j
             /\ \A id \in DOMAIN pc : Started(id) => EntriesOf(snapshot, id) = {}
             /\ \A k \in DOMAIN snapshot :
                  /\ snapshot[k].id \in DOMAIN pc'
                  /\ snapshot[k].pendingDeps >= inDeg'[snapshot[k].id]
                  /\ snapshot[k].id \in DOMAIN inDeg
                       => snapshot[k].pendingDeps <= inDeg[snapshot[k].id]
                  /\ snapshot[k].status =
                       IF snapshot[k].pendingDeps = 0 THEN "ready" ELSE "waiting"
             /\ \A id \in DOMAIN pc' :
                  inDeg'[id] > 0 => Cardinality(EntriesOf(snapshot, id)) = 1
    ]_vars

\* two roots were enqueued with one slot: the second snapshot of the step is empty
\* although the second root is not started, the last lists it as ready
C26_Witness ==
  /\ phase = "running"
  /\ Len(queueUpdates) = 3
  /\ queueUpdates[2] = <<>>
  /\ \E id \in DOMAIN pc :
       /\ pc[id] = "ready"
       /\ inDeg[id] = 0
       /\ Cardinality(EntriesOf(queueUpdates[3], id)) = 1

(* C27: the step in which the Generator invocation of a unit throws saves no row to
   the database and adds no path to the tracked set or to the promotion candidates
   of any language; a unit that failed has no row for its language and directory
   (the table being empty when the run starts), and its artifact path is neither
   tracked nor a candidate, whether or not the Generator wrote the file. *)
C27_FailedUnitNotRecorded ==
  /\ [][\A id \in DOMAIN outcome :
          (outcome[id] = "none" /\ outcome'[id] = "error")
            => /\ db' = db
               /\ createdFiles' = createdFiles
               /\ createdStyleGuides' = createdStyleGuides]_vars
  /\ [](\A g \in Units :
          Failed(g) => /\ <<RunId, g.language, g.directory>> \notin db
                       /\ StyleFilePath(g) \notin createdFiles
                       /\ StyleFilePath(g) \notin Registered
                       /\ \A l \in DOMAIN outputFiles : outputFiles[l] # StyleFilePath(g))

\* a unit failed after its Generator wrote the artifact file, another of the same
\* language succeeded: only the second has a row and a registered path
C27_Witness ==
  \E g \in Units, h \in Units :
    /\ g.language = h.language
    /\ Failed(g)
    /\ StyleFilePath(g) \in fs
    /\ Succeeded(h)
    /\ db = {<<RunId, h.language, h.directory>>}
    /\ Registered = {StyleFilePath(h)}

\* the calls of onWorkerUpdate for one worker, in order
UpdatesFor(updates, w) == SelectSeq(updates, LAMBDA u : u.id = w)

\* the changes of status of a worker's life cycle
LifeCycle ==
  { <<"idle", "working">>, <<"working", "success">>, <<"working", "error">>,
    <<"success", "idle">>, <<"error", "idle">> }

(* C28: in a run during which reset() is not called, the statuses a worker goes
   through, as passed to onWorkerUpdate one after the other, change only along
   idle -> working -> (success | error) -> idle; an update that keeps the status
   is a progress message of a working worker; a worker becomes working only in the
   step that gives it a unit, with the language and directory of that unit; and
   whenever it is idle again its language, directory, error and progress are
   undefined. *)
C28_WorkerLifeCycle ==
  [][(Running /\ ~ cancelled')
       => \A w \in DOMAIN workers :
            LET us == UpdatesFor(workerUpdates', w)
                path == <<Emit(w, workers[w])>> \o us
            IN /\ us # <<>> => us[Len(us)] = Emit(w, workers'[w])
               /\ us = <<>> => workers'[w] = workers[w]
               /\ \A k \in 1..Len(us) :
                    /\ path[k].status # path[k + 1].status
                         => <<path[k].status, path[k + 1].status>> \in LifeCycle
                    /\ path[k].status = path[k + 1].status
                         => /\ path[k].status = "working"
                            /\ path[k + 1].progress = ProgressMessage
                    /\ (path[k].status = "idle" /\ path[k + 1].status = "working")
                         => \E id \in DOMAIN pc :
                              /\ pc[id] = "acquired" /\ pc'[id] = "generating"
                              /\ assigned[id] = w
                              /\ path[k + 1].language = GroupOf(id).language
                              /\ path[k + 1].directory = GroupOf(id).directory
                    /\ path[k + 1].status = "idle" => path[k + 1] = Emit(w, IdleWorker)
               /\ workers'[w].status = "idle" => workers'[w] = IdleWorker
    ]_vars

\* the only worker was given a second unit after its first unit failed: it is
\* working again, with no error and no progress left from the first unit
C28_Witness ==
  /\ concurrency = 1
  /\ ~ cancelled
  /\ \E id \in DOMAIN pc : pc[id] = "done" /\ outcome[id] = "error"
  /\ \E id \in DOMAIN pc : pc[id] = "generating" /\ assigned[id] = 1
  /\ workers[1].status = "working"
  /\ workers[1].error = Undefined
  /\ workers[1].progress = Undefined

(* C29 as stated: when reset() is called during a run, the Generator invocation of
   every unit in flight is signalled to abort, and the unit completes as failed
   with the message "Operation cancelled", never as success.  reset() clears the
   abort controller of the run: a unit started after a reset() is given no signal,
   a later reset() during the run cannot abort it, and it can succeed. *)
C29_InFlightCancelled ==
  /\ [][(Reset /\ Running) => \A id \in InFlight : signal'[id] = "aborted"]_vars
  /\ [](\A id \in inFlightAtReset : outcome[id] # "success")
  /\ [][\A id \in inFlightAtReset :
          (outcome[id] = "none" /\ outcome'[id] # "none")
            => /\ outcome'[id] = "error"
               /\ workerUpdates'[1].status = "error"
               /\ workerUpdates'[1].error = ErrCancelled]_vars

\* directory c is directory p, the separator, and more
Under(c, p) == StartsWith(c, p \o <<"/">>)

\* the edges the claim describes, as pairs of task ids
DirectParentPairs ==
  { <<GetTaskId(g), GetTaskId(p)>> : <<g, p>> \in
      { pair \in Units \X Units :
          /\ pair[1] # pair[2]
          /\ pair[1].language = pair[2].language
          /\ Under(pair[1].directory, pair[2].directory)
          /\ ~ \E m \in Units :
                 /\ m # pair[1] /\ m # pair[2]
                 /\ m.language = pair[1].language
                 /\ Under(pair[1].directory, m.directory)
                 /\ Under(m.directory, pair[2].directory) } }

(* C30: once run() has built its edges, [child, parent] is an edge exactly when the
   two are distinct units of one language, the child's directory starts with the
   parent's directory followed by "/", and no third unit of the language has its
   directory between them; each edge is pushed once, and no edge joins units of
   different languages. *)
C30_EdgesAreDirectParents ==
  phase \in {"running", "promoting", "cleaning", "resolved"} =>
    /\ Range(edges) = DirectParentPairs
    /\ \A i, j \in DOMAIN edges : edges[i] = edges[j] => i = j
    /\ \A k \in DOMAIN edges :
         \E g \in Units, p \in Units :
           /\ edges[k] = <<GetTaskId(g), GetTaskId(p)>>
           /\ g.language = p.language

\* the units of /a, /a/b and /a/b/c of one language: two edges, none from /a/b/c
\* to /a
C30_Witness ==
  /\ phase = "running"
  /\ { g.directory : g \in Units } = {DirA, DirAB, DirABC}
  /\ Cardinality(Languages) = 1
  /\ Range(edges) = { <<GetTaskId(g), GetTaskId(p)>> : <<g, p>> \in
                        { pair \in Units \X Units :
                            \/ pair[1].directory = DirABC /\ pair[2].directory = DirAB
                            \/ pair[1].directory = DirAB /\ pair[2].directory = DirA } }

\* there is a path of at most n edges from task a to task b
RECURSIVE PathWithin(_, _, _)
PathWithin(a, b, n) ==
  /\ n > 0
  /\ \E k \in DOMAIN edges :
       /\ edges[k][1] = a
       /\ edges[k][2] = b \/ PathWithin(edges[k][2], b, n - 1)

(* C31: the units of a run having pairwise distinct (language, directory), the
   graph of the edges built has no cycle, every unit has at most one outgoing edge,
   its direct parent, which is of its language, and when runTasks has ended the
   pending count of every unit is 0. *)
C31_EdgesFormForest ==
  /\ \A i, j \in DOMAIN groups :
       (groups[i].language = groups[j].language /\ groups[i].directory = groups[j].directory)
         => i = j
  /\ \A id \in TaskIds : ~ PathWithin(id, id, Len(groups))
  /\ \A i, j \in DOMAIN edges : edges[i][1] = edges[j][1] => i = j
  /\ \A k \in DOMAIN edges :
       /\ edges[k][1] \in TaskIds /\ edges[k][2] \in TaskIds
       /\ GroupOf(edges[k][1]).language = GroupOf(edges[k][2]).language
  /\ phase = "promoting" => \A id \in DOMAIN inDeg : inDeg[id] = 0

\* /a with its children /a/b and /a/d: two edges into /a, one out of each child, and
\* runTasks has ended
C31_Witness ==
  /\ phase = "promoting"
  /\ { g.directory : g \in Units } = {DirA, DirAB, DirAD}
  /\ Len(edges) = 2
  /\ \A k \in DOMAIN edges : GroupOf(edges[k][2]).directory = DirA

\* a unit of g's language lies above g / below g
HasAncestor(g) ==
  \E m \in Units : m.language = g.language /\ Ancestor(m.directory, g.directory)
HasDescendant(g) ==
  \E m \in Units : m.language = g.language /\ Ancestor(g.directory, m.directory)

(* C32 as stated: a unit with no same-language ancestor among the other units has
   initial pending count 0 and is put in the ready queue when the run starts.  The
   edges go from child to parent and the count of a unit is the number of edges
   into it: a unit with no ancestor and with a child starts with a count > 0 and
   waits. *)
C32_NoAncestorStartsReady ==
  [][(phase = "mkdir" /\ phase' = "running")
       => \A g \in Units :
            ~ HasAncestor(g)
              => /\ inDeg'[GetTaskId(g)] = 0
                 /\ \E k \in DOMAIN readyOrder' : readyOrder'[k] = GetTaskId(g)]_vars

(* C32: a unit with no same-language descendant among the other units has initial
   pending count 0 and is put in the ready queue in the step that starts runTasks,
   in the order of the input; every other unit starts with a count > 0, the number
   of its direct children, and waits. *)
C32_NoDescendantStartsReady ==
  [][(phase = "mkdir" /\ phase' = "running")
       => /\ \A g \in Units :
               IF HasDescendant(g)
                 THEN /\ inDeg'[GetTaskId(g)] > 0
                      /\ pc'[GetTaskId(g)] = "waiting"
                      /\ \A k \in DOMAIN readyOrder' : readyOrder'[k] # GetTaskId(g)
                 ELSE /\ inDeg'[GetTaskId(g)] = 0
                      /\ pc'[GetTaskId(g)] # "waiting"
                      /\ \E k \in DOMAIN readyOrder' : readyOrder'[k] = GetTaskId(g)
          /\ readyOrder' = SelectSeq(TaskOrder(groups),
                                     LAMBDA id : ~ HasDescendant(GroupOf(id)))]_vars

\* runTasks has just started with /a/b/c, /a/b and /a: /a/b/c is started, the two
\* units above it wait with count 1, /a having no ancestor
C32_Witness ==
  /\ phase = "running"
  /\ completedTasks = {}
  /\ { g.directory : g \in Units } = {DirA, DirAB, DirABC}
  /\ Cardinality(Languages) = 1
  /\ \A g \in Units :
       /\ g.directory = DirABC => pc[GetTaskId(g)] = "acquired"
       /\ g.directory # DirABC => (pc[GetTaskId(g)] = "waiting" /\ inDeg[GetTaskId(g)] = 1)

----------------------------------------------------------------------------
\* a sequence without a repeated element
NoDuplicates(seq) == \A i, j \in DOMAIN seq : seq[i] = seq[j] => i = j

\* how far the job of a unit has got
Position(p) ==
  CASE p = "waiting" -> 0
    [] p = "ready" -> 1
    [] p = "polling" -> 2
    [] p = "acquired" -> 2
    [] p = "generating" -> 3
    [] p = "settled" -> 4
    [] p = "finishing" -> 5
    [] p = "done" -> 6

(* C33: every unit of a run is enqueued once, its job is started once, it gets a
   worker and its Generator is invoked once, whatever the concurrency and whichever
   units fail: enqueue() is never called twice with a unit and no job is started
   twice, the job of a unit only moves forward, a unit whose task runs holds a
   worker id, and when runTasks has returned every unit was enqueued, started and
   executed, and is done with the outcome success or error. *)
C33_EveryUnitExecutedOnce ==
  /\ [](phase \in {"running", "promoting"} =>
          /\ NoDuplicates(readyOrder)
          /\ NoDuplicates(startOrder)
          /\ Range(startOrder) \subseteq Range(readyOrder)
          /\ Range(readyOrder) \subseteq TaskIds
          /\ \A id \in TaskIds :
               /\ pc[id] = "waiting" <=> id \notin Range(readyOrder)
               /\ pc[id] \in {"waiting", "ready"} <=> id \notin Range(startOrder)
               /\ pc[id] \in {"acquired", "generating"} => assigned[id] \in 1..concurrency
               /\ pc[id] \in {"settled", "finishing", "done"}
                    => outcome[id] \in {"success", "error"}
               /\ pc[id] \in {"waiting", "ready", "acquired"} => outcome[id] = "none")
  /\ [](phase = "promoting" =>
          /\ Len(readyOrder) = Len(groups)
          /\ Len(startOrder) = Len(groups)
          /\ Range(startOrder) = TaskIds
          /\ completedTasks = TaskIds
          /\ \A id \in TaskIds : pc[id] = "done" /\ outcome[id] \in {"success", "error"})
  /\ [][(phase = "running" /\ phase' = "running") =>
          \A id \in TaskIds :
            /\ Position(pc'[id]) >= Position(pc[id])
            /\ Position(pc'[id]) > Position(pc[id]) =>
                 \/ Position(pc'[id]) = Position(pc[id]) + 1
                 \/ pc[id] = "waiting" /\ pc'[id] = "acquired"]_vars

\* runTasks has returned for three units run by two workers, a parent with its two
\* children, of which one child failed and the other units succeeded
C33_Witness ==
  /\ phase = "promoting"
  /\ concurrency = 2
  /\ Len(groups) = 3
  /\ Len(edges) = 2
  /\ Len(startOrder) = 3
  /\ Cardinality({ id \in TaskIds : outcome[id] = "error" }) = 1
  /\ Cardinality({ id \in TaskIds : outcome[id] = "success" }) = 2

----------------------------------------------------------------------------
(* C34: a deletion that fails during cleanup is not fatal and stops no other
   deletion.  In the finally block of run(), unlink is called with every tracked
   file before any of them settles, a rejected unlink leaves run() in its cleanup
   with the other unlinks as they were, and the cleanup ends with run() resolved.
   The file-cleanup handler calls unlink with every file of the tracked set, an
   unlink that rejects (with ENOENT or another code) leaves the other unlinks as
   they were, and the promise the handler returned is never rejected: it is
   fulfilled when all its unlinks have settled. *)
C34_DeletionFailuresTolerated ==
  /\ [](phase = "cleaning" => createdFiles \subseteq unlinkCalled)
  /\ [][(unlinkFailed' # unlinkFailed) =>
          /\ phase' = "cleaning"
          /\ unlinkCalled' = unlinkCalled
          /\ unlinkPending' = unlinkPending \ (unlinkFailed' \ unlinkFailed)]_vars
  /\ [][(phase = "cleaning" /\ phase' # "cleaning") =>
          (phase' = "resolved" /\ unlinkPending = {})]_vars
  /\ [](handlerPromise # "rejected")
  /\ [][(handlerPromise = "none" /\ handlerPromise' # "none") =>
          (handlerPromise' = "pending" /\ DOMAIN handlerUnlinks' = createdFiles)]_vars
  /\ [][\A path \in DOMAIN handlerUnlinks :
          (handlerUnlinks[path] = "pending"
             /\ handlerUnlinks'[path] \in {"missing", "logged"})
            => /\ handlerPromise' = "pending"
               /\ \A other \in DOMAIN handlerUnlinks \ {path} :
                    handlerUnlinks'[other] = handlerUnlinks[other]]_vars
  /\ [](handlerPromise = "fulfilled" =>
          \A path \in DOMAIN handlerUnlinks : handlerUnlinks[path] # "pending")
  /\ [][handlerPromise = "pending" => DOMAIN handlerUnlinks' = DOMAIN handlerUnlinks]_vars

\* the handler was called with two tracked files, one unlink was rejected and logged
\* and the other removed its file, and the handler's promise is fulfilled; later the
\* finally block of run() called unlink with two files, one unlink was rejected and
\* the other resolved, and run() resolved
C34_Witness ==
  /\ phase = "resolved"
  /\ Cardinality(unlinkCalled) = 2
  /\ Cardinality(unlinkFailed) = 1
  /\ unlinkCalled \ unlinkFailed # {}
  /\ handlerPromise = "fulfilled"
  /\ Cardinality(DOMAIN handlerUnlinks) = 2
  /\ \E path \in DOMAIN handlerUnlinks : handlerUnlinks[path] = "logged"
  /\ \E path \in DOMAIN handlerUnlinks : handlerUnlinks[path] = "removed"

----------------------------------------------------------------------------
\* directory c is below directory p
DescendantDirectory(c, p) == c # p /\ (p = DirRoot \/ StartsWith(c, p \o <<"/">>))

(* C35: toposort returns, for each language of its input and for no other, the
   groups of that language, each once, in an order in which every directory comes
   after all the directories of the language that are below it. *)
C35_ToposortDescendantsFirst ==
  /\ DOMAIN sortedGroups = DOMAIN fileGroups
  /\ \A language \in DOMAIN fileGroups :
       LET input == fileGroups[language]
           output == sortedGroups[language]
       IN /\ Len(output) = Len(input)
          /\ Range(output) = Range(input)
          /\ \A i, j \in DOMAIN output :
               DescendantDirectory(output[j].directory, output[i].directory) => j < i

----------------------------------------------------------------------------
\* the worker ids held by units: assignedWorkerId of the tasks that are running
HeldWorkers == { assigned[id] : id \in { x \in DOMAIN pc : assigned[x] # 0 } }

(* C36: while the units of a run are executed, the worker ids are shared out
   exactly: the free-worker queue holds no id twice, no two units hold the same id,
   the units that hold an id are the ones in flight, no id is both free and held,
   and the free and the held ids together are 1..concurrency. *)
C36_WorkerIdsPartitioned ==
  phase \in {"running", "promoting"} =>
    /\ NoDuplicates(workerQueue)
    /\ \A id, other \in DOMAIN pc :
         (id # other /\ assigned[id] # 0) => assigned[id] # assigned[other]
    /\ \A id \in DOMAIN pc : assigned[id] # 0 <=> pc[id] \in {"acquired", "generating"}
    /\ Range(workerQueue) \cap HeldWorkers = {}
    /\ Range(workerQueue) \cup HeldWorkers = 1..concurrency

\* of two workers, the first was taken, released by a unit that has completed, and
\* is free again, while the second is held by a unit whose Generator runs
C36_Witness ==
  /\ phase = "running"
  /\ concurrency = 2
  /\ workerQueue = <<1>>
  /\ completedTasks # {}
  /\ \E id \in DOMAIN pc : pc[id] = "generating" /\ assigned[id] = 2

----------------------------------------------------------------------------
\* the direct children of a unit that have not completed
PendingChildren(id, done) ==
  { c \in TaskIds : <<c, id>> \in DirectParentPairs /\ c \notin done }

(* C37: while the units of a run are executed, the pending dependency count of
   every unit is the number of its direct children that have not completed, and
   is never negative; the step in which a child completes takes one from the
   count of its direct parent and from no other count, and no other step changes
   a count; and enqueue() is called with a unit in the step in which its count
   becomes 0 (for a unit without children, the step that starts the scheduler),
   and in that step only. *)
C37_PendingCountTracksChildren ==
  /\ [](phase \in {"running", "promoting"} =>
          \A id \in TaskIds :
            /\ inDeg[id] >= 0
            /\ inDeg[id] = Cardinality(PendingChildren(id, completedTasks)))
  /\ [][(phase = "running" /\ phase' = "running") =>
          \A id \in TaskIds :
            /\ inDeg'[id] =
                 inDeg[id] - Cardinality({ c \in completedTasks' \ completedTasks :
                                             <<c, id>> \in DirectParentPairs })
            /\ inDeg[id] - inDeg'[id] \in {0, 1}
            /\ (Len(readyOrder') > Len(readyOrder)
                  /\ \E k \in (Len(readyOrder) + 1)..Len(readyOrder') : readyOrder'[k] = id)
                 <=> (inDeg[id] > 0 /\ inDeg'[id] = 0)]_vars
  /\ [][(phase = "mkdir" /\ phase' = "running") =>
          Range(readyOrder') = { id \in Range(TaskOrder(groups)) : inDeg'[id] = 0 }]_vars

\* the second child of a unit with two children has just completed: the count of
\* the parent went from 2 to 0 in two steps and the parent is ready or started
C37_Witness ==
  \E id \in DOMAIN inDeg :
    /\ phase = "running"
    /\ Cardinality({ c \in TaskIds : <<c, id>> \in DirectParentPairs }) = 2
    /\ inDeg[id] = 0
    /\ Len(readyOrder) = 3
    /\ readyOrder[3] = id
    /\ \E c \in TaskIds : <<c, id>> \in DirectParentPairs /\ outcome[c] = "error"

----------------------------------------------------------------------------
(* C38: when run() has settled, resolved or rejected, every worker is idle and its
   language, directory, error and progress are undefined, whether the units
   succeeded, failed or were cancelled by reset() during the run: no worker is left
   working, success or error. *)
C38_WorkersIdleWhenSettled ==
  phase \in {"resolved", "rejected"} =>
    \A w \in DOMAIN workers :
      /\ workers[w].status = "idle"
      /\ workers[w].status \notin {"working", "success", "error"}
      /\ workers[w].language = Undefined
      /\ workers[w].directory = UndefinedPath
      /\ workers[w].error = Undefined
      /\ workers[w].progress = Undefined

\* run() has resolved after a run of two units with two workers during which
\* reset() was called while a unit was in flight: one unit succeeded, the other
\* failed
C38_Witness ==
  /\ phase = "resolved"
  /\ concurrency = 2
  /\ cancelled
  /\ inFlightAtReset # {}
  /\ \E id \in DOMAIN outcome : outcome[id] = "success"
  /\ \E id \in DOMAIN outcome : outcome[id] = "error"
  /\ \A w \in DOMAIN workers : workers[w].status = "idle"

----------------------------------------------------------------------------
\* the units whose job is started by a step, in the order they are started
StartedByStep == SubSeq(startOrder', Len(startOrder) + 1, Len(startOrder'))

(* C39: a task that begins finds a free worker id: while the units are executed
   at least as many ids are free as p-queue has free slots, a step starts no more
   jobs than there are free ids, every unit whose job is started leaves
   getWorker's first check with one of the ids that were free, and no task is ever in
   the polling sleep of getWorker. *)
C39_WorkerFreeWhenTaskBegins ==
  /\ [](\A id \in DOMAIN pc : pc[id] # "polling")
  /\ [](phase = "running" => Len(workerQueue) >= concurrency - pqPending)
  /\ [][(phase' = "running" /\ Len(startOrder') > Len(startOrder)) =>
          LET free == IF phase = "running" THEN Range(workerQueue) ELSE 1..concurrency
          IN /\ Len(StartedByStep) <= Cardinality(free)
             /\ \A k \in DOMAIN StartedByStep :
                  /\ pc'[StartedByStep[k]] = "acquired"
                  /\ assigned'[StartedByStep[k]] \in free
                  /\ assigned'[StartedByStep[k]] \notin Range(workerQueue')]_vars

\* with one worker and three units that are ready from the start, the job of the
\* second unit has just been started by the end of the first: it holds the worker
\* the first one released, and the third unit is still ready
C39_Witness ==
  /\ phase = "running"
  /\ concurrency = 1
  /\ Len(startOrder) = 2
  /\ pc[startOrder[1]] = "done"
  /\ pc[startOrder[2]] = "acquired"
  /\ assigned[startOrder[2]] = 1
  /\ workerQueue = <<>>
  /\ Len(readyQueue) = 1

----------------------------------------------------------------------------
(* C40: run() adds one handler, its file-cleanup handler, to the cleanup registry
   in the step that starts it, and takes it out in its finally block, on the path
   that returns and on the path that throws: the handler is registered from the
   start of run() until the finally block and at no other time, so that the
   registry holds after the run what it held before; and no step of the run adds
   or removes another handler. *)
C40_RunRestoresHandlers ==
  /\ [][(phase = "none" /\ phase' # "none") =>
          /\ FileCleanupHandler \notin handlers
          /\ handlers' = handlers \cup {FileCleanupHandler}
          /\ Cardinality(handlers' \ handlers) = 1]_vars
  /\ [](phase \in {"mkdir", "running", "promoting"} => FileCleanupHandler \in handlers)
  /\ [](phase \in {"none", "cleaning", "resolved", "rejected"}
          => FileCleanupHandler \notin handlers)
  /\ [][(phase # "none" \/ phase' # "none") =>
          handlers' \ {FileCleanupHandler} = handlers \ {FileCleanupHandler}]_vars
  /\ [][(phase \in {"mkdir", "promoting"} /\ phase' \in {"cleaning", "resolved", "rejected"})
          => handlers' = handlers \ {FileCleanupHandler}]_vars

\* run() has resolved after a run of two units in a process where two other
\* handlers were registered before the run: the registry holds these two
C40_Witness ==
  /\ phase = "resolved"
  /\ handlers = OtherHandlers
  /\ Cardinality(Units) = 2
  /\ unlinkCalled # {}

====
